---- MODULE Spec2Model ----
(***************************************************************************)
(* shellcaster: the controller (src/src/main_controller.rs) and the        *)
(* persistence layer it drives (src/src/db.rs).                            *)
(*                                                                         *)
(* Eleven specifications:                                                  *)
(*   SpecMerge   Database::update_episodes as a function of a stored       *)
(*               episodes table and a fetched episode list;                *)
(*   SpecInsert  the first fetch of a podcast stored by add_or_sync_data   *)
(*               and Database::insert_podcast;                             *)
(*   Spec        MainController::loop_msgs from an empty library: adding   *)
(*               feeds, feed checks and downloads, one action per message; *)
(*   SpecLibrary the commands on a stored library: filters, mark played,   *)
(*               removals;                                                 *)
(*   SpecFiles   playing and deleting the files of a stored library;       *)
(*   SpecDownloads download requests and completions on a stored library;  *)
(*   SpecBatch   feed checks of two stored podcasts at a time;             *)
(*   SpecScopes  the scopes each handler takes on the stores, in order;    *)
(*   SpecKeep    feed checks of a stored podcast whose episode is marked   *)
(*               in between;                                               *)
(*   SpecResync  removals followed by feed checks;                         *)
(*   SpecCancel  removals while downloads are in flight.                   *)
(***************************************************************************)
EXTENDS Integers, Sequences, FiniteSets, Bags, TLC

(***************************************************************************)
(* Bounds of the model.                                                    *)
(***************************************************************************)
\* SpecMerge: stored rows plus fetched episodes of an initial state
MaxMergeSize == 3
\* Spec: episodes in one fetched feed
MaxFeedLen == 1
\* Spec: rows of the episodes table
MaxEpisodes == 2
\* Spec: feed-check jobs the UI may have requested and not seen answered
MaxPending == 1
\* SpecLibrary: episodes of the stored library
MaxLibrary == 2
\* SpecLibrary, SpecFiles, SpecResync, SpecCancel: commands on the library the user
\* gives
MaxCommands == 3

\* SpecBatch: the feed checks of stored podcasts in flight at a time, and the
\* results kept in sync_tracker
MaxBatch == 2

(***************************************************************************)
(* Values.  Option<T> is a sequence of length at most one.                 *)
(***************************************************************************)
None == << >>
Some(x) == << x >>

Titles == {"t1", "t2"}
Urls == {"u1", "u2"}
Descriptions == {Some("d1")}
Durations == {Some(30)}
\* DateTime<Utc> at the resolution of one second, as seconds since the epoch
DateTimes == {100, 200}

\* chrono: DateTime::timestamp
timestamp(dt) == dt

\* types.rs EpisodeNoId, as the feed parser hands it over
EpisodeNoId ==
    [title : Titles, url : Urls, description : Descriptions,
     pubdate : {None} \cup {Some(dt) : dt \in DateTimes}, duration : Durations]

b2i(b) == IF b THEN 1 ELSE 0

SetMax(S) == CHOOSE x \in S : \A y \in S : y <= x

Range(s) == {s[i] : i \in DOMAIN s}

\* the sequences over S of length at most n
SeqsUpTo(S, n) == UNION {[1..k -> S] : k \in 0..n}

VARIABLES
    db_podcasts,        \* table podcasts: a set of rows
    db_episodes,        \* table episodes: a set of rows
    db_files,           \* table files: the episode ids that have a row
    config,             \* Config.download_new_episodes
    podcasts,           \* MainController.podcasts: LockVec<Podcast>
    filters,            \* MainController.filters
    sync_counter,       \* MainController.sync_counter
    sync_tracker,       \* MainController.sync_tracker
    download_tracker,   \* MainController.download_tracker
    feed_jobs,          \* feed checks handed to the threadpool, not yet answered: a bag
    dl_jobs,            \* downloads handed to the threadpool, not yet answered: a bag
    sent,               \* what the last handler sent on tx_to_ui, in order
    handled,            \* the message the last handler was called for
    panicked,           \* the controller thread has panicked
    dl_batch,           \* history: the last DownloadAll that found the tracking set empty
    m_before,           \* SpecMerge: the episodes table before the last run
    m_fetched,          \* SpecMerge: the fetched list of the last run
    m_result,           \* SpecMerge: what the last run returned
    m_runs              \* number of runs (SpecMerge, SpecInsert) or of commands on the
                        \* library (SpecLibrary, SpecFiles, SpecResync, SpecCancel) so far

dbvars == <<db_podcasts, db_episodes, db_files>>
ctlvars == <<config, podcasts, filters, sync_counter, sync_tracker, download_tracker,
             feed_jobs, dl_jobs, sent, handled, panicked, dl_batch>>
mvars == <<m_before, m_fetched, m_result, m_runs>>
vars == <<dbvars, ctlvars, mvars>>

(***************************************************************************)
(* db.rs                                                                   *)
(***************************************************************************)

\* convert_date: NULL (the column read fails) gives None
convert_date(result) == IF result = None THEN None ELSE Some(result[1])

\* SQLite's rowid for an INTEGER PRIMARY KEY: one more than the largest in the table
last_insert_rowid(rows) == IF rows = {} THEN 1 ELSE SetMax({r.id : r \in rows}) + 1

\* Database::insert_episode: the table after the insert, and the new id
insert_episode(eps, podcast_id, episode) ==
    LET id == last_insert_rowid(eps)
        pubdate == IF episode.pubdate = None THEN None
                   ELSE Some(timestamp(episode.pubdate[1]))
    IN  [eps |-> eps \cup {[id |-> id, podcast_id |-> podcast_id,
                            title |-> episode.title, url |-> episode.url,
                            description |-> episode.description,
                            pubdate |-> pubdate, duration |-> episode.duration,
                            played |-> FALSE, hidden |-> FALSE]},
         id |-> id]

\* one row of get_episodes' SELECT ... LEFT JOIN files, as an Episode
EpisodeOfRow(row, files) ==
    [id |-> row.id, pod_id |-> row.podcast_id, title |-> row.title, url |-> row.url,
     description |-> row.description, pubdate |-> convert_date(row.pubdate),
     duration |-> row.duration,
     path |-> IF row.id \in files THEN Some(row.id) ELSE None,
     played |-> row.played]

\* ORDER BY pubdate DESC: NULL sorts as the smallest value, so it comes last
PubdateDesc(a, b) ==
    b.pubdate = None \/ (a.pubdate # None /\ a.pubdate[1] >= b.pubdate[1])

RECURSIVE SortedOrders(_)
\* the orders of a set of rows that ORDER BY pubdate DESC allows: SQL leaves the
\* order of rows with equal pubdate open
SortedOrders(rows) ==
    IF rows = {} THEN {<< >>}
    ELSE UNION {{<<r>> \o s : s \in SortedOrders(rows \ {r})} :
                r \in {x \in rows : \A y \in rows : PubdateDesc(x, y)}}

\* Database::get_episodes: the lists the query may return
get_episodes(eps, files, pod_id, include_hidden) ==
    LET rows == {r \in eps : r.podcast_id = pod_id /\ (include_hidden \/ ~r.hidden)}
    IN  {[i \in 1..Len(s) |-> EpisodeOfRow(s[i], files)] : s \in SortedOrders(rows)}

\* update_episodes, lines 335-361: one stored episode against one fetched one
\* MatchOne with the publish timestamps left out of the score
MatchOne_no_pubdate(new_ep, old_ep) ==
    [matching |-> b2i(new_ep.title = old_ep.title) + b2i(new_ep.url = old_ep.url),
     update |-> ~(new_ep.title = old_ep.title /\ new_ep.url = old_ep.url
                  /\ new_ep.description = old_ep.description
                  /\ new_ep.duration = old_ep.duration
                  /\ new_ep.pubdate # None /\ old_ep.pubdate # None)]

MatchOne(new_ep, old_ep) ==
    LET new_pd == IF new_ep.pubdate = None THEN None
                  ELSE Some(timestamp(new_ep.pubdate[1]))
        both == new_pd # None /\ old_ep.pubdate # None
        matching == b2i(new_ep.title = old_ep.title) + b2i(new_ep.url = old_ep.url)
                    + (IF both THEN b2i(new_pd[1] = timestamp(old_ep.pubdate[1])) ELSE 0)
        pd_match == both
    IN  [matching |-> matching,
         update |-> ~(new_ep.title = old_ep.title /\ new_ep.url = old_ep.url
                      /\ new_ep.description = old_ep.description
                      /\ new_ep.duration = old_ep.duration /\ pd_match)]

RECURSIVE ScanOld(_, _, _)
\* the inner loop from position j of old_episodes down to 1, ending at the first
\* stored episode with matching >= 2
ScanOld(new_ep, old_episodes, j) ==
    IF j = 0 THEN [existing_id |-> None, update |-> FALSE]
    ELSE LET m == MatchOne(new_ep, old_episodes[j])
         IN  IF m.matching >= 2
             THEN [existing_id |-> Some(old_episodes[j].id), update |-> m.update]
             ELSE ScanOld(new_ep, old_episodes, j - 1)

RECURSIVE ScanOldForward(_, _, _)
ScanOldForward(new_ep, old_episodes, j) ==
    IF j > Len(old_episodes) THEN [existing_id |-> None, update |-> FALSE]
    ELSE LET m == MatchOne(new_ep, old_episodes[j])
         IN  IF m.matching >= 2
             THEN [existing_id |-> Some(old_episodes[j].id), update |-> m.update]
             ELSE ScanOldForward(new_ep, old_episodes, j + 1)

\* find_existing with the stored episodes scanned in get_episodes' order (no .rev())
find_existing_forward(new_ep, old_episodes) == ScanOldForward(new_ep, old_episodes, 1)

\* the inner loop: for old_ep in old_episodes.iter().rev()
find_existing(new_ep, old_episodes) == ScanOld(new_ep, old_episodes, Len(old_episodes))

\* the UPDATE episodes statement of update_episodes
update_row(eps, id, new_ep) ==
    LET new_pd == IF new_ep.pubdate = None THEN None
                  ELSE Some(timestamp(new_ep.pubdate[1]))
    IN  {IF r.id = id
         THEN [r EXCEPT !.title = new_ep.title, !.url = new_ep.url,
                        !.description = new_ep.description, !.pubdate = new_pd,
                        !.duration = new_ep.duration]
         ELSE r : r \in eps}

\* the body of the outer loop for one fetched episode; acc carries the table, the
\* two result vectors, and the existing_id found for each fetched episode
merge_step(acc, old_episodes, podcast_id, podcast_title, new_ep) ==
    LET f == find_existing(new_ep, old_episodes)
    IN  IF f.existing_id # None
        THEN IF f.update
             THEN [acc EXCEPT !.eps = update_row(acc.eps, f.existing_id[1], new_ep),
                              !.updated = Append(acc.updated, f.existing_id[1]),
                              !.existing = Append(acc.existing, f.existing_id)]
             ELSE [acc EXCEPT !.existing = Append(acc.existing, f.existing_id)]
        ELSE LET ins == insert_episode(acc.eps, podcast_id, new_ep)
             IN  [acc EXCEPT !.eps = ins.eps,
                             !.added = Append(acc.added,
                                              [id |-> ins.id, pod_id |-> podcast_id,
                                               title |-> new_ep.title,
                                               pod_title |-> podcast_title,
                                               selected |-> FALSE]),
                             !.existing = Append(acc.existing, None)]

RECURSIVE MergeLoop(_, _, _, _, _, _)
\* the outer loop: for new_ep in episodes.iter().rev(), from position i down to 1
MergeLoop(acc, old_episodes, podcast_id, podcast_title, episodes, i) ==
    IF i = 0 THEN acc
    ELSE MergeLoop(merge_step(acc, old_episodes, podcast_id, podcast_title, episodes[i]),
                   old_episodes, podcast_id, podcast_title, episodes, i - 1)

\* Database::update_episodes, given the rows get_episodes(podcast_id, true) returned:
\* the table afterwards and the SyncResult
update_episodes(eps, old_episodes, podcast_id, podcast_title, episodes) ==
    MergeLoop([eps |-> eps, added |-> << >>, updated |-> << >>, existing |-> << >>],
              old_episodes, podcast_id, podcast_title, episodes, Len(episodes))

RECURSIVE InsertLoop(_, _, _, _, _)
\* insert_podcast's loop from position i of the episodes down to 1
InsertLoop(acc, pod_id, pod_title, episodes, i) ==
    IF i = 0 THEN acc
    ELSE LET ins == insert_episode(acc.eps, pod_id, episodes[i])
         IN  InsertLoop([eps |-> ins.eps,
                         added |-> Append(acc.added,
                                          [id |-> ins.id, pod_id |-> pod_id,
                                           title |-> episodes[i].title,
                                           pod_title |-> pod_title,
                                           selected |-> FALSE])],
                        pod_id, pod_title, episodes, i - 1)

RECURSIVE InsertLoopForward(_, _, _, _, _)
InsertLoopForward(acc, pod_id, pod_title, episodes, i) ==
    IF i > Len(episodes) THEN acc
    ELSE LET ins == insert_episode(acc.eps, pod_id, episodes[i])
         IN  InsertLoopForward([eps |-> ins.eps,
                                added |-> Append(acc.added,
                                                 [id |-> ins.id, pod_id |-> pod_id,
                                                  title |-> episodes[i].title,
                                                  pod_title |-> pod_title,
                                                  selected |-> FALSE])],
                               pod_id, pod_title, episodes, i + 1)

\* insert_episodes with the fetched list walked front to back (no .rev())
insert_episodes_forward(eps, pod_id, pod_title, episodes) ==
    InsertLoopForward([eps |-> eps, added |-> << >>], pod_id, pod_title, episodes, 1)

\* insert_podcast, lines 187-198: for ep in podcast.episodes.iter().rev()
insert_episodes(eps, pod_id, pod_title, episodes) ==
    InsertLoop([eps |-> eps, added |-> << >>], pod_id, pod_title, episodes, Len(episodes))

\* Database::insert_podcast.  db_ok = FALSE: the first statement fails for a reason
\* outside the program; the INSERT also fails when the url is already stored (url
\* TEXT NOT NULL UNIQUE).  Err leaves the tables as they were.
insert_podcast(pods, eps, podcast, db_ok) ==
    IF ~db_ok \/ \E p \in pods : p.url = podcast.url
    THEN [ok |-> FALSE, pods |-> pods, eps |-> eps,
          result |-> [added |-> << >>, updated |-> << >>]]
    ELSE LET pod_id == last_insert_rowid(pods)
             r == insert_episodes(eps, pod_id, podcast.title, podcast.episodes)
         IN  [ok |-> TRUE,
              pods |-> pods \cup {[id |-> pod_id, title |-> podcast.title,
                                   url |-> podcast.url]},
              eps |-> r.eps,
              result |-> [added |-> r.added, updated |-> << >>]]

\* Database::update_podcast, given the rows get_episodes(pod_id, true) returned.
\* The UPDATE fails when another row holds the url; with no row of that id it
\* changes nothing, and the first INSERT of update_episodes then fails on the
\* foreign key (no episode of a missing podcast is stored, so nothing was written).
update_podcast(pods, eps, pod_id, podcast, old_episodes, db_ok) ==
    LET r == update_episodes(eps, old_episodes, pod_id, podcast.title, podcast.episodes)
        fail == \/ ~db_ok
                \/ \E p \in pods : p.id # pod_id /\ p.url = podcast.url
                \/ (r.added # << >> /\ ~\E p \in pods : p.id = pod_id)
    IN  IF fail
        THEN [ok |-> FALSE, pods |-> pods, eps |-> eps,
              result |-> [added |-> << >>, updated |-> << >>]]
        ELSE [ok |-> TRUE,
              pods |-> {IF p.id = pod_id
                        THEN [p EXCEPT !.title = podcast.title, !.url = podcast.url]
                        ELSE p : p \in pods},
              eps |-> r.eps,
              result |-> [added |-> r.added, updated |-> r.updated]]

\* insert_file reporting Ok whether or not the row was written
insert_file_unchecked(eps, files, episode_id, db_ok) ==
    [ok |-> TRUE,
     files |-> IF ~db_ok \/ ~\E r \in eps : r.id = episode_id
               THEN files ELSE files \cup {episode_id}]

\* Database::insert_file: fails when db_ok = FALSE, when the path is already
\* stored (path TEXT NOT NULL UNIQUE; a path stands for one episode's file), or
\* when the episode row is gone (foreign key)
insert_file(eps, files, episode_id, db_ok) ==
    IF ~db_ok \/ episode_id \in files \/ ~\E r \in eps : r.id = episode_id
    THEN [ok |-> FALSE, files |-> files]
    ELSE [ok |-> TRUE, files |-> files \cup {episode_id}]

\* Database::set_played_status: UPDATE episodes SET played = ? WHERE id = ?
set_played_status(eps, episode_id, played, db_ok) ==
    IF ~db_ok THEN [ok |-> FALSE, eps |-> eps]
    ELSE [ok |-> TRUE,
          eps |-> {IF r.id = episode_id THEN [r EXCEPT !.played = played] ELSE r :
                   r \in eps}]

\* Database::hide_episode: UPDATE episodes SET hidden = ? WHERE id = ?
hide_episode(eps, episode_id, hide, db_ok) ==
    IF ~db_ok THEN [ok |-> FALSE, eps |-> eps]
    ELSE [ok |-> TRUE,
          eps |-> {IF r.id = episode_id THEN [r EXCEPT !.hidden = hide] ELSE r :
                   r \in eps}]

\* Database::remove_file: DELETE FROM files WHERE episode_id = ?
remove_file(files, episode_id, db_ok) ==
    IF ~db_ok THEN [ok |-> FALSE, files |-> files]
    ELSE [ok |-> TRUE, files |-> files \ {episode_id}]

\* Database::remove_files: the ids are joined into one string ("1, 2") that is
\* bound to the single parameter of DELETE FROM files WHERE episode_id = (?).
\* The string of one id compares equal to that id; any other string is equal to
\* no id, and nothing is deleted.
remove_files(files, episode_ids, db_ok) ==
    IF ~db_ok THEN [ok |-> FALSE, files |-> files]
    ELSE [ok |-> TRUE,
          files |-> IF Len(episode_ids) = 1 THEN files \ {episode_ids[1]} ELSE files]

\* Database::remove_podcast: DELETE FROM podcasts WHERE id = ?, cascading to the
\* episodes of the podcast and to their files (PRAGMA foreign_keys=ON)
remove_podcast(pods, eps, files, podcast_id, db_ok) ==
    IF ~db_ok THEN [ok |-> FALSE, pods |-> pods, eps |-> eps, files |-> files]
    ELSE [ok |-> TRUE,
          pods |-> {p \in pods : p.id # podcast_id},
          eps |-> {r \in eps : r.podcast_id # podcast_id},
          files |-> files \ {r.id : r \in {x \in eps : x.podcast_id = podcast_id}}]

(***************************************************************************)
(* types.rs is not among the sources: LockVec and Podcast follow the       *)
(* specification's Shared Ordered Store.                                   *)
(***************************************************************************)

\* LockVec::new
LockVec_new(data) ==
    [map |-> [id \in {data[i].id : i \in 1..Len(data)} |->
                (CHOOSE x \in Range(data) : x.id = id)],
     order |-> [i \in 1..Len(data) |-> data[i].id],
     filtered_order |-> [i \in 1..Len(data) |-> data[i].id]]

\* LockVec::replace_all: the mapping and the canonical order; the filtered order
\* is recomputed only by an explicit call
replace_all(lv, data) ==
    [lv EXCEPT !.map = LockVec_new(data).map, !.order = LockVec_new(data).order]

\* LockVec::replace: a no-op when the id is absent
replace(lv, id, entity) ==
    IF id \in DOMAIN lv.map THEN [lv EXCEPT !.map[id] = entity] ELSE lv

\* LockVec::filter_map: the ids, in canonical order, of the entities the closure
\* keeps (kept: the ids it returns Some for)
filter_map(order, kept) == SelectSeq(order, LAMBDA id : id \in kept)

\* the feeds the model knows, and the title each one's RSS gives
FeedUrls == {"f1"}
PodTitle(url) == IF url = "f1" THEN "The Zoo" ELSE "apes"

\* get_podcasts, lines 436-438: lowercased, a leading article removed
sort_title(title) == IF title = "The Zoo" THEN "zoo" ELSE title

\* the order of the model's sort titles as strings
SortRank(t) == CASE t = "apes" -> 1 [] t = "p1" -> 2 [] t = "zoo" -> 3
SortTitleLess(a, b) == SortRank(a) < SortRank(b)

RECURSIVE SortedPodcasts(_)
\* podcasts.sort_unstable(): by sort_title, equal ones in any order
SortedPodcasts(pods) ==
    IF pods = {} THEN {<< >>}
    ELSE UNION {{<<p>> \o s : s \in SortedPodcasts(pods \ {p})} :
                p \in {x \in pods :
                         \A y \in pods : ~SortTitleLess(y.sort_title, x.sort_title)}}

RECURSIVE LoadedPodcasts(_, _, _)
\* get_podcasts, lines 428-452: every row of podcasts with the episodes
\* get_episodes(id, false) may return for it
LoadedPodcasts(pods, eps, files) ==
    IF pods = {} THEN {{}}
    ELSE LET p == CHOOSE x \in pods : TRUE
         IN  {rest \cup {[id |-> p.id, title |-> p.title,
                          sort_title |-> sort_title(p.title), url |-> p.url,
                          episodes |-> LockVec_new(list)]} :
                rest \in LoadedPodcasts(pods \ {p}, eps, files),
                list \in get_episodes(eps, files, p.id, FALSE)}

\* Database::get_podcasts: the lists it may return
get_podcasts(pods, eps, files) ==
    UNION {SortedPodcasts(loaded) : loaded \in LoadedPodcasts(pods, eps, files)}

(***************************************************************************)
(* main_controller.rs                                                      *)
(***************************************************************************)

\* format!: the template, the strings and the numbers put into it
format(template, names, numbers) ==
    [template |-> template, names |-> names, numbers |-> numbers]

\* notif_to_ui: MainMessage::UiSpawnNotif(message, error, MESSAGE_TIME)
UiSpawnNotif(text, error) == [type |-> "UiSpawnNotif", text |-> text, error |-> error]
UiSpawnPersistentNotif(sync_len, dl_len) ==
    [type |-> "UiSpawnPersistentNotif", sync_len |-> sync_len, dl_len |-> dl_len]
UiClearPersistentNotif == [type |-> "UiClearPersistentNotif"]
UiUpdateMenus == [type |-> "UiUpdateMenus"]
UiSpawnDownloadPopup(new_eps, selected) ==
    [type |-> "UiSpawnDownloadPopup", new_eps |-> new_eps, selected |-> selected]

\* MainController::update_tracker_notif: the message it sends
update_tracker_notif(sync_len, tracker) ==
    IF sync_len > 0 \/ Cardinality(tracker) > 0
    THEN UiSpawnPersistentNotif(sync_len, Cardinality(tracker))
    ELSE UiClearPersistentNotif

\* PassesFilters with the two cases of the played filter exchanged
PassesFilters_swapped(ep, f) ==
    LET play_filter == CASE f.played = "All" -> FALSE
                         [] f.played = "PositiveCases" -> ep.played
                         [] f.played = "NegativeCases" -> ~ep.played
        download_filter == CASE f.downloaded = "All" -> FALSE
                             [] f.downloaded = "PositiveCases" -> ep.path = None
                             [] f.downloaded = "NegativeCases" -> ep.path # None
    IN  ~(play_filter \/ download_filter)

\* the closure of update_filters: the episode passes both filters
PassesFilters(ep, f) ==
    LET play_filter == CASE f.played = "All" -> FALSE
                         [] f.played = "PositiveCases" -> ~ep.played
                         [] f.played = "NegativeCases" -> ep.played
        download_filter == CASE f.downloaded = "All" -> FALSE
                             [] f.downloaded = "PositiveCases" -> ep.path = None
                             [] f.downloaded = "NegativeCases" -> ep.path # None
    IN  ~(play_filter \/ download_filter)

\* update_filters with every podcast pushed to the filtered list, whether or not
\* an episode of it passes
update_filters_all_pods(pods, f) ==
    LET new_filter(pod_id) ==
            LET eps == pods.map[pod_id].episodes
            IN  filter_map(eps.order,
                           {id \in DOMAIN eps.map : PassesFilters(eps.map[id], f)})
    IN  [map |-> [pod_id \in DOMAIN pods.map |->
                    IF pod_id \in Range(pods.order)
                    THEN [pods.map[pod_id] EXCEPT
                            !.episodes.filtered_order = new_filter(pod_id)]
                    ELSE pods.map[pod_id]],
         order |-> pods.order,
         filtered_order |-> pods.order]

\* MainController::update_filters: the store with every filtered order recomputed
update_filters(pods, f) ==
    LET new_filter(pod_id) ==
            LET eps == pods.map[pod_id].episodes
            IN  filter_map(eps.order,
                           {id \in DOMAIN eps.map : PassesFilters(eps.map[id], f)})
        visible == {pod_id \in DOMAIN pods.map : new_filter(pod_id) # << >>}
    IN  [map |-> [pod_id \in DOMAIN pods.map |->
                    IF pod_id \in Range(pods.order)
                    THEN [pods.map[pod_id] EXCEPT
                            !.episodes.filtered_order = new_filter(pod_id)]
                    ELSE pods.map[pod_id]],
         order |-> pods.order,
         filtered_order |-> filter_map(pods.order, visible)]

\* downloads.rs EpData, with the fields the controller reads back from a
\* completion message
EpData(ep) == [id |-> ep.id, pod_id |-> ep.pod_id]

RECURSIVE SeqToBag(_)
SeqToBag(s) == IF s = << >> THEN EmptyBag ELSE SetToBag({Head(s)}) (+) SeqToBag(Tail(s))

\* download with the filter on the tracking set left out
download_retain_all(ep_data, tracker) == ep_data

\* download, line 530: ep_data.retain(|ep| !self.download_tracker.contains(&ep.id))
download_retain(ep_data, tracker) == SelectSeq(ep_data, LAMBDA ep : ep.id \notin tracker)

\* download_candidates with the episodes taken whether or not they have a path
download_candidates_all(pods, pod_id, ep_id) ==
    LET eps == pods.map[pod_id].episodes
        ids == IF ep_id # None THEN <<ep_id[1]>> ELSE eps.order
    IN  [i \in 1..Len(ids) |-> EpData(eps.map[ids[i]])]

\* download, lines 478-526: the episodes of the request that have no local path;
\* the caller has checked that the podcast and the episode exist
download_candidates(pods, pod_id, ep_id) ==
    LET eps == pods.map[pod_id].episodes
        undownloaded == {id \in DOMAIN eps.map : eps.map[id].path = None}
        ids == IF ep_id # None
               THEN (IF ep_id[1] \in undownloaded THEN <<ep_id[1]>> ELSE << >>)
               ELSE filter_map(eps.order, undownloaded)
    IN  [i \in 1..Len(ids) |-> EpData(eps.map[ids[i]])]

\* MainController::download on st = [tracker, jobs, sent, panicked]: the part of
\* the controller a download request changes.  mkdir_ok: create_dir_all succeeds.
\* The two unwrap() calls panic when the podcast or the episode is not in the store.
download(st, pods, sync_len, pod_id, ep_id, mkdir_ok) ==
    IF st.panicked THEN st
    ELSE IF \/ pod_id \notin DOMAIN pods.map
            \/ (ep_id # None /\ ep_id[1] \notin DOMAIN pods.map[pod_id].episodes.map)
    THEN [st EXCEPT !.panicked = TRUE]
    ELSE LET ep_data == download_retain(download_candidates(pods, pod_id, ep_id),
                                        st.tracker)
             ids == {ep_data[i].id : i \in 1..Len(ep_data)}
         IN  IF ep_data = << >> THEN st
             ELSE IF mkdir_ok
             THEN [st EXCEPT !.tracker = @ \cup ids,
                             !.jobs = @ (+) SeqToBag(ep_data),
                             !.sent = Append(@, update_tracker_notif(sync_len,
                                                                    st.tracker \cup ids))]
             ELSE [st EXCEPT !.sent = @ \o <<UiSpawnNotif(format("Could not create dir: {pod_title}",
                                                                 <<pods.map[pod_id].title>>, << >>),
                                                          TRUE),
                                             update_tracker_notif(sync_len, st.tracker)>>]

RECURSIVE download_each(_, _, _, _, _)
\* the loops of loop_msgs (DownloadMulti) and add_or_sync_data (Always): one
\* download call per pair, each with its own create_dir_all outcome
download_each(st, pods, sync_len, pairs, mkdir_oks) ==
    IF pairs = << >> THEN st
    ELSE download_each(download(st, pods, sync_len, Head(pairs)[1], Some(Head(pairs)[2]),
                                Head(mkdir_oks)),
                       pods, sync_len, Tail(pairs), Tail(mkdir_oks))

NoBatch == [active |-> FALSE, k |-> 0, notifs |-> 0]

\* history of the last DownloadAll: a request other than a DownloadAll on an empty
\* tracking set that dispatches jobs ends it
BatchAfterRequest(st, is_all) ==
    IF st.tracker = download_tracker THEN dl_batch
    ELSE IF is_all /\ download_tracker = {}
    THEN [active |-> TRUE, k |-> Cardinality(st.tracker), notifs |-> 0]
    ELSE NoBatch

DownloadsComplete == UiSpawnNotif(format("Downloads complete.", << >>, << >>), FALSE)

BatchAfterCompletion(msgs) ==
    IF dl_batch.active /\ \E i \in 1..Len(msgs) : msgs[i] = DownloadsComplete
    THEN [dl_batch EXCEPT !.notifs = @ + 1]
    ELSE dl_batch

\* what a download request leaves of the controller
AfterDownloads(st, is_all) ==
    /\ download_tracker' = st.tracker
    /\ dl_jobs' = st.jobs
    /\ sent' = st.sent
    /\ panicked' = st.panicked
    /\ dl_batch' = BatchAfterRequest(st, is_all)

DlState == [tracker |-> download_tracker, jobs |-> dl_jobs, sent |-> << >>,
            panicked |-> FALSE]

\* the (podcast, episode) pairs the UI can name: the episodes of the store
StorePairs ==
    UNION {{<<p, e>> : e \in DOMAIN podcasts.map[p].episodes.map} : p \in DOMAIN podcasts.map}

\* feeds.rs PodcastFeed
PodcastFeed(id, url, title) == [id |-> id, url |-> url, title |-> title]

SyncJobs == {j \in BagToSet(feed_jobs) : j.id # None}
AddJobs == {j \in BagToSet(feed_jobs) : j.id = None}
JobCount(bag, S) == IF S = {} THEN 0 ELSE BagCardinality([j \in S |-> CopiesIn(j, bag)])
Take(bag, j) == bag (-) SetToBag({j})

\* the episodes the model's feeds are made of
FeedEpisodes ==
    {[title |-> "t1", url |-> "u1", description |-> Some("d1"),
      pubdate |-> Some(100), duration |-> Some(30)],
     [title |-> "t1", url |-> "u1", description |-> Some("d2"),
      pubdate |-> Some(100), duration |-> Some(30)],
     [title |-> "t2", url |-> "u2", description |-> Some("d1"),
      pubdate |-> Some(200), duration |-> Some(30)]}

\* what a feed check may fetch from url
FetchedPodcasts(url) ==
    {[title |-> PodTitle(url), url |-> url, episodes |-> eps] :
       eps \in SeqsUpTo(FeedEpisodes, MaxFeedLen)}

(***************************************************************************)
(* Spec: the message loop.  One action per message of loop_msgs.           *)
(***************************************************************************)

DownloadNewEpisodes == {"Always", "AskSelected", "AskUnselected", "Never"}

Init ==
    /\ db_podcasts = {}
    /\ db_episodes = {}
    /\ db_files = {}
    /\ config \in DownloadNewEpisodes
    /\ podcasts = LockVec_new(<< >>)
    /\ filters = [played |-> "All", downloaded |-> "All"]
    /\ sync_counter = 0
    /\ sync_tracker = << >>
    /\ download_tracker = {}
    /\ feed_jobs = EmptyBag
    /\ dl_jobs = EmptyBag
    /\ sent = << >>
    /\ handled = [type |-> "none"]
    /\ panicked = FALSE
    /\ dl_batch = NoBatch
    /\ m_before = {}
    /\ m_fetched = << >>
    /\ m_result = [added |-> << >>, updated |-> << >>, existing |-> << >>]
    /\ m_runs = 0

\* Message::Ui(UiMsg::AddFeed(url)): add_podcast
AddFeed ==
    /\ ~panicked
    /\ JobCount(feed_jobs, AddJobs) < MaxPending
    /\ \E url \in FeedUrls :
         /\ feed_jobs' = feed_jobs (+) SetToBag({PodcastFeed(None, url, None)})
         /\ handled' = [type |-> "AddFeed", url |-> url]
    /\ sent' = << >>
    /\ UNCHANGED <<dbvars, config, podcasts, filters, sync_counter, sync_tracker,
                   download_tracker, dl_jobs, panicked, dl_batch, mvars>>

\* Message::Ui(UiMsg::Sync(pod_id)): sync(Some(pod_id)), with at most max feed
\* checks of stored podcasts in flight
SyncWithin(max) ==
    /\ ~panicked
    /\ sync_counter < max
    /\ \E pod_id \in DOMAIN podcasts.map :
         LET pod == podcasts.map[pod_id]
         IN  /\ feed_jobs' = feed_jobs
                             (+) SetToBag({PodcastFeed(Some(pod.id), pod.url, Some(pod.title))})
             /\ handled' = [type |-> "Sync", pod_id |-> pod_id]
    /\ sync_counter' = sync_counter + 1
    /\ sent' = <<update_tracker_notif(sync_counter + 1, download_tracker)>>
    /\ UNCHANGED <<dbvars, config, podcasts, filters, sync_tracker, download_tracker,
                   dl_jobs, panicked, dl_batch, mvars>>

Sync == SyncWithin(MaxPending)

\* Message::Ui(UiMsg::SyncAll): sync(None), with at most max feed checks of
\* stored podcasts in flight
SyncAllWithin(max) ==
    /\ ~panicked
    /\ sync_counter + Len(podcasts.order) <= max
    /\ LET pod_data == [i \in 1..Len(podcasts.order) |->
                          LET pod == podcasts.map[podcasts.order[i]]
                          IN  PodcastFeed(Some(pod.id), pod.url, Some(pod.title))]
       IN  /\ feed_jobs' = feed_jobs (+) SeqToBag(pod_data)
           /\ sync_counter' = sync_counter + Len(pod_data)
           /\ sent' = <<update_tracker_notif(sync_counter + Len(pod_data),
                                             download_tracker)>>
    /\ handled' = [type |-> "SyncAll"]
    /\ UNCHANGED <<dbvars, config, podcasts, filters, sync_tracker, download_tracker,
                   dl_jobs, panicked, dl_batch, mvars>>

SyncAll == SyncAllWithin(MaxPending)

RECURSIVE SumLen(_, _)
\* add_or_sync_data, lines 359-362: the lengths of one field of the results, added up
SumLen(results, field) ==
    IF results = << >> THEN 0
    ELSE Len(Head(results)[field]) + SumLen(Tail(results), field)

\* ConcatAdded with the added episodes of the results never collected
ConcatAdded_none(results) == << >>

RECURSIVE ConcatAdded(_)
\* add_or_sync_data, line 362: new_eps.extend(res.added.clone())
ConcatAdded(results) ==
    IF results = << >> THEN << >>
    ELSE Head(results).added \o ConcatAdded(Tail(results))

SyncComplete(added, updated) ==
    UiSpawnNotif(format("Sync complete: Added {added}, updated {updated} episodes.",
                        << >>, <<added, updated>>), FALSE)

\* add_or_sync_data, lines 340-346: the stores get_podcasts and update_filters
\* may leave
Reloaded(pods, eps, files) ==
    {update_filters(replace_all(podcasts, list), filters) :
       list \in get_podcasts(pods, eps, files)}

\* add_or_sync_data(pod, None) for the result of the feed check job.
\* reload_ok = FALSE: get_podcasts returns Err and expect() panics.
NewData(job, pod, db_ok, reload_ok) ==
    LET r == insert_podcast(db_podcasts, db_episodes, pod, db_ok)
    IN  /\ feed_jobs' = Take(feed_jobs, job)
        /\ handled' = [type |-> "NewData", url |-> pod.url, ok |-> r.ok]
        /\ db_podcasts' = r.pods
        /\ db_episodes' = r.eps
        /\ IF ~r.ok
           THEN /\ sent' = <<UiSpawnNotif(format("Error adding podcast to database.",
                                                 << >>, << >>), TRUE)>>
                /\ UNCHANGED <<podcasts, panicked>>
           ELSE IF ~reload_ok
           THEN /\ panicked' = TRUE
                /\ sent' = << >>
                /\ UNCHANGED podcasts
           ELSE /\ podcasts' \in Reloaded(r.pods, r.eps, db_files)
                /\ sent' = <<UiUpdateMenus,
                             UiSpawnNotif(format("Successfully added {} episodes.",
                                                 << >>, <<Len(r.result.added)>>),
                                          FALSE)>>
                /\ UNCHANGED panicked
        /\ UNCHANGED <<db_files, config, filters, sync_counter, sync_tracker,
                       download_tracker, dl_jobs, dl_batch>>

\* Message::Feed(FeedMsg::NewData(pod)), line 103
HandleNewData ==
    /\ ~panicked
    /\ \E job \in AddJobs, db_ok \in BOOLEAN, reload_ok \in BOOLEAN :
       \E pod \in FetchedPodcasts(job.url) :
         /\ Cardinality(db_episodes) + Len(pod.episodes) <= MaxEpisodes
         /\ NewData(job, pod, db_ok, reload_ok)
    /\ UNCHANGED mvars

\* add_or_sync_data, lines 348-392, after a successful update_podcast and reload
\* into the store new_podcasts
SyncDone(result, new_podcasts) ==
    LET tracker == Append(sync_tracker, result)
        counter == sync_counter - 1
        added == SumLen(tracker, "added")
        updated == SumLen(tracker, "updated")
        new_eps == ConcatAdded(tracker)
        msgs == <<UiUpdateMenus, update_tracker_notif(counter, download_tracker)>>
        done == Append(msgs, SyncComplete(added, updated))
        pairs == [i \in 1..Len(new_eps) |-> <<new_eps[i].pod_id, new_eps[i].id>>]
    IN  /\ sync_counter' = counter
        /\ IF counter # 0
           THEN /\ sync_tracker' = tracker
                /\ sent' = msgs
                /\ UNCHANGED <<download_tracker, dl_jobs, panicked, dl_batch>>
           ELSE /\ sync_tracker' = << >>
                /\ IF new_eps # << >> /\ config = "Always"
                   THEN \E mkdir_oks \in [1..Len(new_eps) -> BOOLEAN] :
                          AfterDownloads(download_each([DlState EXCEPT !.sent = done],
                                                       new_podcasts, counter, pairs,
                                                       mkdir_oks),
                                         FALSE)
                   ELSE /\ sent' = IF new_eps = << >> \/ config = "Never" THEN done
                                   ELSE Append(done,
                                               UiSpawnDownloadPopup(new_eps,
                                                                    config = "AskSelected"))
                        /\ UNCHANGED <<download_tracker, dl_jobs, panicked, dl_batch>>

\* Message::Feed(FeedMsg::SyncData((id, pod))): add_or_sync_data(pod, Some(id)),
\* with at most max results kept in sync_tracker
HandleSyncDataWithin(max) ==
    /\ ~panicked
    /\ \E job \in SyncJobs, db_ok \in BOOLEAN, reload_ok \in BOOLEAN :
       \E pod \in FetchedPodcasts(job.url),
          old_episodes \in get_episodes(db_episodes, db_files, job.id[1], TRUE) :
         LET r == update_podcast(db_podcasts, db_episodes, job.id[1], pod,
                                 old_episodes, db_ok)
         IN  /\ Cardinality(r.eps) <= MaxEpisodes
             /\ Len(sync_tracker) < max
             /\ feed_jobs' = Take(feed_jobs, job)
             /\ handled' = [type |-> "SyncData", id |-> job.id[1], ok |-> r.ok]
             /\ db_podcasts' = r.pods
             /\ db_episodes' = r.eps
             /\ IF ~r.ok
                THEN /\ sent' = <<UiSpawnNotif(format("Error synchronizing {title}.",
                                                      <<pod.title>>, << >>), TRUE)>>
                     /\ UNCHANGED <<podcasts, sync_counter, sync_tracker,
                                    download_tracker, dl_jobs, panicked, dl_batch>>
                ELSE IF ~reload_ok \/ sync_counter = 0
                THEN /\ panicked' = TRUE
                     /\ sent' = << >>
                     /\ UNCHANGED <<podcasts, sync_counter, sync_tracker,
                                    download_tracker, dl_jobs, dl_batch>>
                ELSE \E new_podcasts \in Reloaded(r.pods, r.eps, db_files) :
                       /\ podcasts' = new_podcasts
                       /\ SyncDone(r.result, new_podcasts)
    /\ UNCHANGED <<db_files, config, filters, mvars>>

HandleSyncData == HandleSyncDataWithin(MaxPending)

\* Message::Feed(FeedMsg::Error(feed)), lines 105-111
HandleFeedError ==
    /\ ~panicked
    /\ \E job \in BagToSet(feed_jobs) :
         /\ feed_jobs' = Take(feed_jobs, job)
         /\ handled' = [type |-> "FeedError", feed |-> job]
         /\ IF job.title = None
            THEN /\ sent' = <<UiSpawnNotif(format("Error retrieving RSS feed.",
                                                  << >>, << >>), TRUE)>>
                 /\ UNCHANGED <<sync_counter, panicked>>
            ELSE IF sync_counter = 0
            THEN /\ panicked' = TRUE
                 /\ sent' = << >>
                 /\ UNCHANGED sync_counter
            ELSE /\ sync_counter' = sync_counter - 1
                 /\ sent' = <<UiSpawnNotif(format("Error retrieving RSS feed for {t}.",
                                                  <<job.title[1]>>, << >>), TRUE)>>
                 /\ UNCHANGED panicked
    /\ UNCHANGED <<dbvars, config, podcasts, filters, sync_tracker, download_tracker,
                   dl_jobs, dl_batch, mvars>>

\* Message::Ui(UiMsg::Download(pod_id, ep_id)): download(pod_id, Some(ep_id))
Download ==
    /\ ~panicked
    /\ \E pair \in StorePairs, mkdir_ok \in BOOLEAN :
         /\ AfterDownloads(download(DlState, podcasts, sync_counter, pair[1],
                                    Some(pair[2]), mkdir_ok), FALSE)
         /\ handled' = [type |-> "Download", pod_id |-> pair[1], ep_id |-> pair[2]]
    /\ UNCHANGED <<dbvars, config, podcasts, filters, sync_counter, sync_tracker,
                   feed_jobs, mvars>>

\* Message::Ui(UiMsg::DownloadMulti(vec)), lines 131-135
DownloadMulti ==
    /\ ~panicked
    /\ \E vec \in SeqsUpTo(StorePairs, MaxEpisodes) :
       \E mkdir_oks \in [1..Len(vec) -> BOOLEAN] :
         /\ AfterDownloads(download_each(DlState, podcasts, sync_counter, vec,
                                         mkdir_oks), FALSE)
         /\ handled' = [type |-> "DownloadMulti", len |-> Len(vec)]
    /\ UNCHANGED <<dbvars, config, podcasts, filters, sync_counter, sync_tracker,
                   feed_jobs, mvars>>

\* Message::Ui(UiMsg::DownloadAll(pod_id)): download(pod_id, None)
DownloadAll ==
    /\ ~panicked
    /\ \E pod_id \in DOMAIN podcasts.map, mkdir_ok \in BOOLEAN :
         /\ AfterDownloads(download(DlState, podcasts, sync_counter, pod_id, None,
                                    mkdir_ok), TRUE)
         /\ handled' = [type |-> "DownloadAll", pod_id |-> pod_id]
    /\ UNCHANGED <<dbvars, config, podcasts, filters, sync_counter, sync_tracker,
                   feed_jobs, mvars>>

\* Message::Dl(DownloadMsg::Complete(ep_data)): download_complete.  The worker
\* reports the path of the file it wrote for the episode; a path stands for the
\* episode it belongs to.
HandleDlComplete ==
    /\ ~panicked
    /\ \E ep_data \in BagToSet(dl_jobs), db_ok \in BOOLEAN :
         LET res == insert_file(db_episodes, db_files, ep_data.id, db_ok)
             file_path == ep_data.id
             found == /\ ep_data.pod_id \in DOMAIN podcasts.map
                      /\ ep_data.id \in DOMAIN podcasts.map[ep_data.pod_id].episodes.map
             tracker == download_tracker \ {ep_data.id}
             msgs == <<update_tracker_notif(sync_counter, tracker)>>
                     \o (IF tracker = {} THEN <<DownloadsComplete>> ELSE << >>)
                     \o <<UiUpdateMenus>>
         IN  /\ dl_jobs' = Take(dl_jobs, ep_data)
             /\ handled' = [type |-> "DlComplete", ep_data |-> ep_data, ok |-> res.ok]
             /\ db_files' = res.files
             /\ IF ~res.ok
                THEN /\ sent' = <<UiSpawnNotif(
                                    format("Could not add episode file to database: {}",
                                           << >>, <<file_path>>), TRUE)>>
                     /\ UNCHANGED <<podcasts, download_tracker, panicked, dl_batch>>
                ELSE IF ~found
                THEN /\ panicked' = TRUE
                     /\ sent' = << >>
                     /\ UNCHANGED <<podcasts, download_tracker, dl_batch>>
                ELSE /\ podcasts' =
                          update_filters(
                            [podcasts EXCEPT
                               !.map[ep_data.pod_id].episodes =
                                  replace(@, ep_data.id,
                                          [@.map[ep_data.id] EXCEPT
                                             !.path = Some(file_path)])],
                            filters)
                     /\ download_tracker' = tracker
                     /\ sent' = msgs
                     /\ dl_batch' = BatchAfterCompletion(msgs)
                     /\ UNCHANGED panicked
    /\ UNCHANGED <<db_podcasts, db_episodes, config, filters, sync_counter,
                   sync_tracker, feed_jobs, mvars>>

DownloadErrors ==
    {"Error sending download request.", "Error creating file.",
     "Error downloading episode."}

\* Message::Dl(DownloadMsg::ResponseError(_) | FileCreateError(_) |
\* FileWriteError(_)), lines 141-149
HandleDlError ==
    /\ ~panicked
    /\ \E ep_data \in BagToSet(dl_jobs), text \in DownloadErrors :
         /\ dl_jobs' = Take(dl_jobs, ep_data)
         /\ handled' = [type |-> "DlError", ep_data |-> ep_data]
         /\ sent' = <<UiSpawnNotif(format(text, << >>, << >>), TRUE)>>
    /\ UNCHANGED <<dbvars, config, podcasts, filters, sync_counter, sync_tracker,
                   download_tracker, feed_jobs, panicked, dl_batch, mvars>>

Next ==
    \/ AddFeed
    \/ Sync
    \/ SyncAll
    \/ HandleNewData
    \/ HandleSyncData
    \/ HandleFeedError
    \/ Download
    \/ DownloadMulti
    \/ DownloadAll
    \/ HandleDlComplete
    \/ HandleDlError

Spec == Init /\ [][Next]_vars

(***************************************************************************)
(* The commands on the library: mark played, delete files, remove, filter. *)
(* They work on c = the tables, the store, the messages sent by the        *)
(* handler so far, and whether the message loop has stopped.               *)
(***************************************************************************)

LibState ==
    [db_podcasts |-> db_podcasts, db_episodes |-> db_episodes, db_files |-> db_files,
     podcasts |-> podcasts, sent |-> << >>, panicked |-> FALSE]

AfterLib(c) ==
    /\ db_podcasts' = c.db_podcasts
    /\ db_episodes' = c.db_episodes
    /\ db_files' = c.db_files
    /\ podcasts' = c.podcasts
    /\ sent' = c.sent
    /\ panicked' = c.panicked

\* unwrap() on None, expect() on Err: the controller thread panics
Panic(c) == [c EXCEPT !.panicked = TRUE]

\* update_filters entered while the scope of borrow_map() on the podcast store is
\* still held (delete_file): the store cannot be borrowed a second time, and the
\* controller thread stops in the attempt
update_filters_reentrant(c) == [c EXCEPT !.panicked = TRUE]

Notify(c, msg) == [c EXCEPT !.sent = Append(@, msg)]

HasEpisode(pods, pod_id, ep_id) ==
    pod_id \in DOMAIN pods.map /\ ep_id \in DOMAIN pods.map[pod_id].episodes.map

\* an enumeration of a set of ids, in the arbitrary order of a HashMap iteration
SetToSeq(S) == CHOOSE q \in [1..Cardinality(S) -> S] : Range(q) = S

\* MainController::mark_played.  The Result of set_played_status is dropped.
mark_played(c, pod_id, ep_id, played, db_ok) ==
    IF c.panicked THEN c
    ELSE IF ~HasEpisode(c.podcasts, pod_id, ep_id) THEN Panic(c)
    ELSE LET podcast == c.podcasts.map[pod_id]
             episode == [podcast.episodes.map[ep_id] EXCEPT !.played = played]
             db == set_played_status(c.db_episodes, episode.id, played, db_ok)
             written == [podcast EXCEPT !.episodes = replace(@, ep_id, episode)]
         IN  [c EXCEPT !.db_episodes = db.eps,
                       !.podcasts = update_filters(replace(c.podcasts, pod_id, written),
                                                   filters),
                       !.sent = Append(@, UiUpdateMenus)]

RECURSIVE set_played_each(_, _, _, _)
\* mark_all_played, lines 456-459: one set_played_status per episode of the store,
\* each Result dropped; ok_ids: the calls that succeed
set_played_each(eps, order, played, ok_ids) ==
    IF order = << >> THEN eps
    ELSE set_played_each(set_played_status(eps, Head(order), played,
                                           Head(order) \in ok_ids).eps,
                         Tail(order), played, ok_ids)

\* MainController::mark_all_played, for the list get_episodes(podcast.id, false)
\* returned (reload_ok = FALSE: it returned Err)
mark_all_played(c, pod_id, played, ok_ids, reload_ok, list) ==
    IF c.panicked THEN c
    ELSE IF pod_id \notin DOMAIN c.podcasts.map THEN Panic(c)
    ELSE LET podcast == c.podcasts.map[pod_id]
             written == [podcast EXCEPT !.episodes = replace_all(@, list)]
             stored == set_played_each(c.db_episodes, podcast.episodes.order, played,
                                       ok_ids)
         IN  IF ~reload_ok THEN Panic([c EXCEPT !.db_episodes = stored])
             ELSE [c EXCEPT !.db_episodes = stored,
                            !.podcasts = update_filters(
                                            replace(c.podcasts, pod_id, written), filters),
                            !.sent = Append(@, UiUpdateMenus)]

\* MainController::delete_file.  fs_ok: fs::remove_file succeeds.
delete_file(c, pod_id, ep_id, fs_ok, db_ok) ==
    IF c.panicked THEN c
    ELSE IF ~HasEpisode(c.podcasts, pod_id, ep_id) THEN Panic(c)
    ELSE LET episode == c.podcasts.map[pod_id].episodes.map[ep_id]
             res == remove_file(c.db_files, episode.id, db_ok)
         IN  IF episode.path = None THEN c
             ELSE IF ~fs_ok
             THEN Notify(c, UiSpawnNotif(format("Error deleting \"{title}\"",
                                                <<episode.title>>, << >>), TRUE))
             ELSE IF ~res.ok
             THEN Notify(c, UiSpawnNotif(
                               format("Could not remove file from database: {title}",
                                      <<episode.title>>, << >>), TRUE))
             ELSE update_filters_reentrant(
                    [c EXCEPT !.db_files = res.files,
                              !.podcasts.map[pod_id].episodes =
                                 replace(@, ep_id, [episode EXCEPT !.path = None])])

\* delete_files with the path cleared for every episode that has one, whether or
\* not fs::remove_file succeeded
delete_files_clear_all(c, pod_id, fs_ok_ids, db_ok) ==
    IF c.panicked THEN c
    ELSE IF pod_id \notin DOMAIN c.podcasts.map THEN Panic(c)
    ELSE LET eps == c.podcasts.map[pod_id].episodes
             with_path == {id \in DOMAIN eps.map : eps.map[id].path # None}
             eps_to_remove == SetToSeq(with_path \cap fs_ok_ids)
             res == remove_files(c.db_files, eps_to_remove, db_ok)
             success == with_path \subseteq fs_ok_ids /\ res.ok
             cleared == [c.podcasts EXCEPT
                           !.map[pod_id].episodes.map =
                              [id \in DOMAIN eps.map |->
                                 IF id \in with_path
                                 THEN [eps.map[id] EXCEPT !.path = None]
                                 ELSE eps.map[id]]]
         IN  [c EXCEPT !.db_files = res.files,
                       !.podcasts = update_filters(cleared, filters),
                       !.sent = @ \o <<UiUpdateMenus,
                                       IF success
                                       THEN UiSpawnNotif(
                                              format("Files successfully deleted.",
                                                     << >>, << >>), FALSE)
                                       ELSE UiSpawnNotif(
                                              format("Error while deleting files",
                                                     << >>, << >>), TRUE)>>]

\* MainController::delete_files.  fs_ok_ids: the episodes whose fs::remove_file
\* succeeds.
delete_files(c, pod_id, fs_ok_ids, db_ok) ==
    IF c.panicked THEN c
    ELSE IF pod_id \notin DOMAIN c.podcasts.map THEN Panic(c)
    ELSE LET eps == c.podcasts.map[pod_id].episodes
             with_path == {id \in DOMAIN eps.map : eps.map[id].path # None}
             eps_to_remove == SetToSeq(with_path \cap fs_ok_ids)
             res == remove_files(c.db_files, eps_to_remove, db_ok)
             success == with_path \subseteq fs_ok_ids /\ res.ok
             cleared == [c.podcasts EXCEPT
                           !.map[pod_id].episodes.map =
                              [id \in DOMAIN eps.map |->
                                 IF id \in Range(eps_to_remove)
                                 THEN [eps.map[id] EXCEPT !.path = None]
                                 ELSE eps.map[id]]]
         IN  [c EXCEPT !.db_files = res.files,
                       !.podcasts = update_filters(cleared, filters),
                       !.sent = @ \o <<UiUpdateMenus,
                                       IF success
                                       THEN UiSpawnNotif(
                                              format("Files successfully deleted.",
                                                     << >>, << >>), FALSE)
                                       ELSE UiSpawnNotif(
                                              format("Error while deleting files",
                                                     << >>, << >>), TRUE)>>]

\* MainController::remove_podcast after the optional delete_files, for the list
\* get_podcasts returned (reload_ok = FALSE: it returned Err)
remove_podcast_tail(c, pod_id, db_ok, reload_ok, list) ==
    IF c.panicked THEN c
    ELSE IF pod_id \notin DOMAIN c.podcasts.map THEN Panic(c)
    ELSE LET res == remove_podcast(c.db_podcasts, c.db_episodes, c.db_files,
                                   c.podcasts.map[pod_id].id, db_ok)
         IN  IF ~res.ok
             THEN Notify(c, UiSpawnNotif(format("Could not remove podcast from database",
                                                << >>, << >>), TRUE))
             ELSE IF ~reload_ok
             THEN Panic([c EXCEPT !.db_podcasts = res.pods, !.db_episodes = res.eps,
                                  !.db_files = res.files])
             ELSE [c EXCEPT !.db_podcasts = res.pods, !.db_episodes = res.eps,
                            !.db_files = res.files,
                            !.podcasts = replace_all(@, list),
                            !.sent = Append(@, UiUpdateMenus)]

\* MainController::remove_episode after the optional delete_file, for the list
\* get_episodes(pod_id, false) returned.  The Result of hide_episode is dropped.
remove_episode_tail(c, pod_id, ep_id, hide_ok, reload_ok, list) ==
    IF c.panicked THEN c
    ELSE LET stored == hide_episode(c.db_episodes, ep_id, TRUE, hide_ok).eps
         IN  IF pod_id \notin DOMAIN c.podcasts.map \/ ~reload_ok
             THEN Panic([c EXCEPT !.db_episodes = stored])
             ELSE [c EXCEPT !.db_episodes = stored,
                            !.podcasts.map[pod_id].episodes = replace_all(@, list),
                            !.sent = Append(@, UiUpdateMenus)]

RECURSIVE hide_each(_, _, _)
\* remove_all_episodes, lines 723-728: one hide_episode per episode of the store,
\* each Result dropped; ok_ids: the calls that succeed
hide_each(eps, order, ok_ids) ==
    IF order = << >> THEN eps
    ELSE hide_each(hide_episode(eps, Head(order), TRUE, Head(order) \in ok_ids).eps,
                   Tail(order), ok_ids)

\* MainController::remove_all_episodes after the optional delete_files
remove_all_episodes_tail(c, pod_id, ok_ids) ==
    IF c.panicked THEN c
    ELSE IF pod_id \notin DOMAIN c.podcasts.map THEN Panic(c)
    ELSE LET podcast == c.podcasts.map[pod_id]
             emptied == [podcast EXCEPT !.episodes = LockVec_new(<< >>)]
         IN  [c EXCEPT !.db_episodes = hide_each(@, podcast.episodes.order, ok_ids),
                       !.podcasts = replace(@, pod_id, emptied),
                       !.sent = Append(@, UiUpdateMenus)]

\* next_filter with the played filter going the way of the downloaded one:
\* all -> pos -> neg
next_filter_pos_first(f, filter_type) ==
    IF filter_type = "Played"
    THEN CASE f.played = "All" ->
                [filters |-> [f EXCEPT !.played = "PositiveCases"],
                 message |-> "Played only"]
           [] f.played = "PositiveCases" ->
                [filters |-> [f EXCEPT !.played = "NegativeCases"],
                 message |-> "Unplayed only"]
           [] f.played = "NegativeCases" ->
                [filters |-> [f EXCEPT !.played = "All"],
                 message |-> "Played and unplayed"]
    ELSE CASE f.downloaded = "All" ->
                [filters |-> [f EXCEPT !.downloaded = "PositiveCases"],
                 message |-> "Downloaded only"]
           [] f.downloaded = "PositiveCases" ->
                [filters |-> [f EXCEPT !.downloaded = "NegativeCases"],
                 message |-> "Undownloaded only"]
           [] f.downloaded = "NegativeCases" ->
                [filters |-> [f EXCEPT !.downloaded = "All"],
                 message |-> "Downloaded and undownloaded"]

\* loop_msgs, lines 179-212: the filters after FilterChange(filter_type), and the
\* message shown
next_filter(f, filter_type) ==
    IF filter_type = "Played"
    THEN CASE f.played = "All" ->
                [filters |-> [f EXCEPT !.played = "NegativeCases"],
                 message |-> "Unplayed only"]
           [] f.played = "NegativeCases" ->
                [filters |-> [f EXCEPT !.played = "PositiveCases"],
                 message |-> "Played only"]
           [] f.played = "PositiveCases" ->
                [filters |-> [f EXCEPT !.played = "All"],
                 message |-> "Played and unplayed"]
    ELSE CASE f.downloaded = "All" ->
                [filters |-> [f EXCEPT !.downloaded = "PositiveCases"],
                 message |-> "Downloaded only"]
           [] f.downloaded = "PositiveCases" ->
                [filters |-> [f EXCEPT !.downloaded = "NegativeCases"],
                 message |-> "Undownloaded only"]
           [] f.downloaded = "NegativeCases" ->
                [filters |-> [f EXCEPT !.downloaded = "All"],
                 message |-> "Downloaded and undownloaded"]

FilterType == {"Played", "Downloaded"}

\* the episodes of a podcast of the store that have a file.  The outcome of
\* fs::remove_file is drawn for these; for the others it is never asked.
WithPath(pod_id) ==
    {id \in DOMAIN podcasts.map[pod_id].episodes.map :
       podcasts.map[pod_id].episodes.map[id].path # None}

\* one more command of the user is handled; the work in the background is untouched
Command ==
    /\ m_runs < MaxCommands
    /\ m_runs' = m_runs + 1
    /\ UNCHANGED <<config, sync_counter, sync_tracker, download_tracker, feed_jobs,
                   dl_jobs, dl_batch, m_before, m_fetched, m_result>>

\* Message::Ui(UiMsg::FilterChange(filter_type)), lines 167-216
FilterChange ==
    /\ ~panicked
    /\ Command
    /\ \E filter_type \in FilterType :
         LET n == next_filter(filters, filter_type)
         IN  /\ filters' = n.filters
             /\ podcasts' = update_filters(podcasts, n.filters)
             /\ sent' = <<UiSpawnNotif(format("Filter: {message}", <<n.message>>, << >>),
                                       FALSE),
                          UiUpdateMenus>>
             /\ handled' = [type |-> "FilterChange", ok |-> TRUE]
    /\ UNCHANGED <<dbvars, panicked>>

\* Message::Ui(UiMsg::MarkPlayed(pod_id, ep_id, played))
MarkPlayed ==
    /\ ~panicked
    /\ Command
    /\ \E pair \in StorePairs, played \in BOOLEAN, db_ok \in BOOLEAN :
         /\ AfterLib(mark_played(LibState, pair[1], pair[2], played, db_ok))
         /\ handled' = [type |-> "MarkPlayed", ok |-> db_ok]
    /\ UNCHANGED filters

\* Message::Ui(UiMsg::MarkAllPlayed(pod_id, played))
MarkAllPlayed ==
    /\ ~panicked
    /\ Command
    /\ \E pod_id \in DOMAIN podcasts.map, played \in BOOLEAN, reload_ok \in BOOLEAN :
       \E ok_ids \in SUBSET DOMAIN podcasts.map[pod_id].episodes.map :
         LET stored == set_played_each(db_episodes,
                                       podcasts.map[pod_id].episodes.order, played,
                                       ok_ids)
         IN  \E list \in get_episodes(stored, db_files, podcasts.map[pod_id].id, FALSE) :
               /\ AfterLib(mark_all_played(LibState, pod_id, played, ok_ids, reload_ok,
                                           list))
               /\ handled' = [type |-> "MarkAllPlayed", ok |-> reload_ok]
    /\ UNCHANGED filters

\* Message::Ui(UiMsg::RemovePodcast(pod_id, delete_files))
RemovePodcast ==
    /\ ~panicked
    /\ Command
    /\ \E pod_id \in DOMAIN podcasts.map, delete \in BOOLEAN, db_ok \in BOOLEAN,
          reload_ok \in BOOLEAN, files_ok \in BOOLEAN :
       \E fs_ok_ids \in SUBSET WithPath(pod_id) :
         LET c == IF delete THEN delete_files(LibState, pod_id, fs_ok_ids, files_ok)
                  ELSE LibState
             res == remove_podcast(c.db_podcasts, c.db_episodes, c.db_files,
                                   podcasts.map[pod_id].id, db_ok)
         IN  /\ delete \/ (fs_ok_ids = {} /\ files_ok)
             /\ db_ok \/ reload_ok
             /\ \E list \in get_podcasts(res.pods, res.eps, res.files) :
                  AfterLib(remove_podcast_tail(c, pod_id, db_ok, reload_ok, list))
             /\ handled' = [type |-> "RemovePodcast", ok |-> db_ok]
    /\ UNCHANGED filters

\* Message::Ui(UiMsg::RemoveEpisode(pod_id, ep_id, delete_files))
RemoveEpisode ==
    /\ ~panicked
    /\ Command
    /\ \E pair \in StorePairs, delete \in BOOLEAN, fs_ok \in BOOLEAN,
          file_ok \in BOOLEAN, hide_ok \in BOOLEAN, reload_ok \in BOOLEAN :
         LET c == IF delete THEN delete_file(LibState, pair[1], pair[2], fs_ok, file_ok)
                  ELSE LibState
             stored == hide_episode(c.db_episodes, pair[2], TRUE, hide_ok).eps
         IN  /\ (delete /\ pair[2] \in WithPath(pair[1])) \/ (fs_ok /\ file_ok)
             /\ fs_ok \/ file_ok
             /\ \E list \in get_episodes(stored, c.db_files, pair[1], FALSE) :
                  AfterLib(remove_episode_tail(c, pair[1], pair[2], hide_ok, reload_ok,
                                               list))
             /\ handled' = [type |-> "RemoveEpisode", ok |-> hide_ok]
    /\ UNCHANGED filters

\* Message::Ui(UiMsg::RemoveAllEpisodes(pod_id, delete_files))
RemoveAllEpisodes ==
    /\ ~panicked
    /\ Command
    /\ \E pod_id \in DOMAIN podcasts.map, delete \in BOOLEAN, files_ok \in BOOLEAN :
       \E fs_ok_ids \in SUBSET WithPath(pod_id),
          ok_ids \in SUBSET DOMAIN podcasts.map[pod_id].episodes.map :
         LET c == IF delete THEN delete_files(LibState, pod_id, fs_ok_ids, files_ok)
                  ELSE LibState
         IN  /\ delete \/ (fs_ok_ids = {} /\ files_ok)
             /\ AfterLib(remove_all_episodes_tail(c, pod_id, ok_ids))
             /\ handled' = [type |-> "RemoveAllEpisodes",
                            ok |-> ok_ids = DOMAIN podcasts.map[pod_id].episodes.map]
    /\ UNCHANGED filters


\* play_file::execute is not among the sources: the player is started with one
\* argument and the call returns Ok or Err (exec_ok)
execute(arg, exec_ok) == [arg |-> arg, ok |-> exec_ok]

\* play_target with the URL handed over whether or not there is a local file
play_target_url(episode) == [kind |-> "url", arg |-> episode.url]

\* what play_file hands to the player: the local file when there is one, the
\* remote URL otherwise (the paths of the model are valid Unicode)
play_target(episode) ==
    IF episode.path # None THEN [kind |-> "file", arg |-> episode.path[1]]
    ELSE [kind |-> "url", arg |-> episode.url]

\* MainController::play_file
play_file(c, pod_id, ep_id, db_ok, exec_ok) ==
    LET marked == mark_played(c, pod_id, ep_id, TRUE, db_ok)
    IN  IF marked.panicked THEN marked
        ELSE LET episode == marked.podcasts.map[pod_id].episodes.map[ep_id]
                 run == execute(play_target(episode), exec_ok)
             IN  IF run.ok THEN marked
                 ELSE IF episode.path # None
                 THEN Notify(marked, UiSpawnNotif(
                        format("Error: Could not play file. Check configuration.",
                               << >>, << >>), TRUE))
                 ELSE Notify(marked, UiSpawnNotif(
                        format("Error: Could not stream URL.", << >>, << >>), TRUE))

\* Message::Ui(UiMsg::Play(pod_id, ep_id))
Play ==
    /\ ~panicked
    /\ Command
    /\ \E pair \in StorePairs, db_ok \in BOOLEAN, exec_ok \in BOOLEAN :
         /\ AfterLib(play_file(LibState, pair[1], pair[2], db_ok, exec_ok))
         /\ handled' = [type |-> "Play", pod_id |-> pair[1], ep_id |-> pair[2],
                        target |-> play_target(
                                     podcasts.map[pair[1]].episodes.map[pair[2]]).kind,
                        written |-> db_ok, ok |-> exec_ok]
    /\ UNCHANGED filters

\* Message::Ui(UiMsg::Delete(pod_id, ep_id))
Delete ==
    /\ ~panicked
    /\ Command
    /\ \E pair \in StorePairs, fs_ok \in BOOLEAN, db_ok \in BOOLEAN :
         /\ pair[2] \in WithPath(pair[1]) \/ (fs_ok /\ db_ok)
         /\ fs_ok \/ db_ok
         /\ AfterLib(delete_file(LibState, pair[1], pair[2], fs_ok, db_ok))
         /\ handled' = [type |-> "Delete", pod_id |-> pair[1], ep_id |-> pair[2],
                        fs_ok |-> fs_ok, ok |-> db_ok]
    /\ UNCHANGED filters

\* Message::Ui(UiMsg::DeleteAll(pod_id))
DeleteAll ==
    /\ ~panicked
    /\ Command
    /\ \E pod_id \in DOMAIN podcasts.map, db_ok \in BOOLEAN :
       \E fs_ok_ids \in SUBSET WithPath(pod_id) :
         /\ AfterLib(delete_files(LibState, pod_id, fs_ok_ids, db_ok))
         /\ handled' = [type |-> "DeleteAll", pod_id |-> pod_id,
                        fs_ok_ids |-> fs_ok_ids, ok |-> db_ok]
    /\ UNCHANGED filters

(***************************************************************************)
(* SpecLibrary: the commands on a library that is already stored.  Init is *)
(* the controller MainController::new builds on a stored library.          *)
(***************************************************************************)

LibraryPodcasts ==
    {[id |-> 1, title |-> "p1", url |-> "f1"], [id |-> 2, title |-> "apes", url |-> "f2"]}

\* a stored episode, as an earlier feed check inserted it from FeedEpisodes: the
\* later the row, the later it was published
LibraryRow(id, podcast_id, played) ==
    [id |-> id, podcast_id |-> podcast_id,
     title |-> IF id = 1 THEN "t1" ELSE "t2", url |-> IF id = 1 THEN "u1" ELSE "u2",
     description |-> Some("d1"), pubdate |-> Some(timestamp(100 * id)),
     duration |-> Some(30), played |-> played, hidden |-> FALSE]

\* MainController::new, lines 51-93, on the stored tables
Constructed ==
    /\ db_podcasts = LibraryPodcasts
    /\ config = "Never"
    /\ filters = [played |-> "All", downloaded |-> "All"]
    /\ podcasts \in {LockVec_new(list) :
                       list \in get_podcasts(db_podcasts, db_episodes, db_files)}
    /\ sync_counter = 0
    /\ sync_tracker = << >>
    /\ download_tracker = {}
    /\ feed_jobs = EmptyBag
    /\ dl_jobs = EmptyBag
    /\ sent = << >>
    /\ handled = [type |-> "none"]
    /\ panicked = FALSE
    /\ dl_batch = NoBatch
    /\ m_before = {}
    /\ m_fetched = << >>
    /\ m_result = [added |-> << >>, updated |-> << >>, existing |-> << >>]
    /\ m_runs = 0

LibraryInit ==
    /\ \E n \in 1..MaxLibrary :
       \E pod_of \in [1..n -> {1, 2}], played \in [1..n -> BOOLEAN] :
         /\ db_episodes = {LibraryRow(i, pod_of[i], played[i]) : i \in 1..n}
         /\ db_files \in SUBSET (1..n)
    /\ Constructed

LibraryNext ==
    \/ FilterChange
    \/ MarkPlayed
    \/ MarkAllPlayed
    \/ RemovePodcast
    \/ RemoveEpisode
    \/ RemoveAllEpisodes

SpecLibrary == LibraryInit /\ [][LibraryNext]_vars

(***************************************************************************)
(* SpecDownloads: download requests and their completions on a stored      *)
(* library, some of it downloaded already, under every filter.             *)
(***************************************************************************)

DownloadsNext ==
    \/ FilterChange
    \/ Download
    \/ DownloadMulti
    \/ DownloadAll
    \/ HandleDlComplete
    \/ HandleDlError

SpecDownloads == LibraryInit /\ [][DownloadsNext]_vars

(***************************************************************************)
(* The scopes a handler takes on the stores, in the order of its code: a   *)
(* sequence of events.  A helper of the store that returns an owned value  *)
(* (clone, map, map_single, filter_map, replace, replace_all) holds the    *)
(* store for the time of the call; borrow_map, borrow and                  *)
(* borrow_filtered_order hold it until the guard goes out of scope.        *)
(***************************************************************************)

PodcastStore == <<"podcasts">>
EpisodeStore(pod_id) == <<"episodes", pod_id>>

Acquire(store) == [op |-> "acquire", store |-> store, job |-> None]
Release(store) == [op |-> "release", store |-> store, job |-> None]
Dispatch(job) == [op |-> "dispatch", store |-> << >>, job |-> Some(job)]

\* a helper of the store that returns an owned value
Momentary(store) == <<Acquire(store), Release(store)>>

\* sync_scopes with the jobs handed to the pool inside the section that reads
\* the store
sync_scopes_held(pods, pod_id) ==
    LET ids == IF pod_id # None THEN <<pod_id[1]>> ELSE pods.order
    IN  <<Acquire(PodcastStore)>>
        \o [i \in 1..Len(ids) |->
              Dispatch(PodcastFeed(Some(pods.map[ids[i]].id), pods.map[ids[i]].url,
                                   Some(pods.map[ids[i]].title)))]
        \o <<Release(PodcastStore)>>

\* MainController::sync: map_single or map fills pod_data and returns (294-307),
\* then one check_feed per element of pod_data (309-317)
sync_scopes(pods, pod_id) ==
    LET ids == IF pod_id # None THEN <<pod_id[1]>> ELSE pods.order
    IN  Momentary(PodcastStore)
        \o [i \in 1..Len(ids) |->
              Dispatch(PodcastFeed(Some(pods.map[ids[i]].id), pods.map[ids[i]].url,
                                   Some(pods.map[ids[i]].title)))]

RECURSIVE Flatten(_)
Flatten(seqs) == IF seqs = << >> THEN << >> ELSE Head(seqs) \o Flatten(Tail(seqs))

\* update_filters with the filtered order of each episode store borrowed first and
\* the podcast store borrowed inside that scope
update_filters_scopes_inner_first(pods) ==
    Flatten([i \in 1..Len(pods.order) |->
               <<Acquire(EpisodeStore(pods.order[i])), Acquire(PodcastStore),
                 Release(PodcastStore), Release(EpisodeStore(pods.order[i]))>>])

\* MainController::update_filters: borrow() on the podcast store for the block
\* (741-769); for each podcast of the order, filter_map on its episode store (745)
\* and borrow_filtered_order to the end of the iteration (765-767)
update_filters_scopes(pods) ==
    <<Acquire(PodcastStore)>>
    \o Flatten([i \in 1..Len(pods.order) |->
                  Momentary(EpisodeStore(pods.order[i]))
                  \o <<Acquire(EpisodeStore(pods.order[i])),
                       Release(EpisodeStore(pods.order[i]))>>])
    \o <<Release(PodcastStore)>>

\* LockVec<Podcast>::clone_episode(pod_id, ep_id): the episode is read in the
\* episode store of the podcast, inside the section on the podcast store
clone_episode_scopes(pod_id) ==
    <<Acquire(PodcastStore)>> \o Momentary(EpisodeStore(pod_id)) \o <<Release(PodcastStore)>>

\* MainController::mark_played: clone_podcast (436), clone_episode (440),
\* episodes.replace (444), podcasts.replace (446), update_filters (447)
mark_played_scopes(pods, pod_id) ==
    Momentary(PodcastStore) \o Momentary(EpisodeStore(pod_id))
    \o Momentary(EpisodeStore(pod_id)) \o Momentary(PodcastStore)
    \o update_filters_scopes(pods)

\* MainController::mark_all_played: clone_podcast (454), borrow_order for the
\* block (455-460), episodes.replace_all (461), podcasts.replace (467),
\* update_filters (468)
mark_all_played_scopes(pods, pod_id) ==
    Momentary(PodcastStore)
    \o <<Acquire(EpisodeStore(pod_id)), Release(EpisodeStore(pod_id))>>
    \o Momentary(EpisodeStore(pod_id)) \o Momentary(PodcastStore)
    \o update_filters_scopes(pods)

\* MainController::play_file: mark_played (407), podcasts.clone_episode (408)
play_file_scopes(pods, pod_id) ==
    mark_played_scopes(pods, pod_id) \o clone_episode_scopes(pod_id)

\* MainController::download: borrow_map for the block (478-526), map_single or
\* filter_map on the episode store inside it
download_scopes(pod_id) ==
    <<Acquire(PodcastStore)>> \o Momentary(EpisodeStore(pod_id)) \o <<Release(PodcastStore)>>

\* MainController::download_complete after insert_file: clone_podcast (574),
\* clone_episode (575), episodes.replace (577), update_filters (586)
download_complete_scopes(pods, pod_id) ==
    Momentary(PodcastStore) \o Momentary(EpisodeStore(pod_id))
    \o Momentary(EpisodeStore(pod_id)) \o update_filters_scopes(pods)

\* MainController::delete_file: borrow_map to the end of the function (603),
\* clone_episode (606) and, when the file and its record are removed (removed),
\* episodes.replace (620) and update_filters (622)
delete_file_scopes(pods, pod_id, removed) ==
    <<Acquire(PodcastStore)>> \o Momentary(EpisodeStore(pod_id))
    \o (IF removed
        THEN Momentary(EpisodeStore(pod_id)) \o update_filters_scopes(pods)
        ELSE << >>)
    \o <<Release(PodcastStore)>>

\* MainController::delete_files: borrow_map on the podcast store and on the
\* episode store for the block (635-653), update_filters after it (659)
delete_files_scopes(pods, pod_id) ==
    <<Acquire(PodcastStore), Acquire(EpisodeStore(pod_id)),
      Release(EpisodeStore(pod_id)), Release(PodcastStore)>>
    \o update_filters_scopes(pods)

\* MainController::remove_podcast: delete_files (672), map_single (675) and,
\* when remove_podcast succeeds in storage (db_ok), replace_all (682)
remove_podcast_scopes(pods, pod_id, delete, db_ok) ==
    (IF delete THEN delete_files_scopes(pods, pod_id) ELSE << >>)
    \o Momentary(PodcastStore)
    \o (IF db_ok THEN Momentary(PodcastStore) ELSE << >>)

\* MainController::remove_episode: delete_file (697), borrow_map for the block
\* with episodes.replace_all inside (701-709)
remove_episode_scopes(pods, pod_id, delete, removed) ==
    (IF delete THEN delete_file_scopes(pods, pod_id, removed) ELSE << >>)
    \o <<Acquire(PodcastStore)>> \o Momentary(EpisodeStore(pod_id))
    \o <<Release(PodcastStore)>>

\* MainController::remove_all_episodes: delete_files (719), clone_podcast (722),
\* episodes.map (723), podcasts.replace (730)
remove_all_episodes_scopes(pods, pod_id, delete) ==
    (IF delete THEN delete_files_scopes(pods, pod_id) ELSE << >>)
    \o Momentary(PodcastStore) \o Momentary(EpisodeStore(pod_id))
    \o Momentary(PodcastStore)

\* MainController::add_or_sync_data after the write to storage: replace_all
\* (340), update_filters (346) and, under Always, one download for each new
\* episode (375-377); downloads: the podcasts of the new episodes
add_or_sync_data_scopes(pods, downloads) ==
    Momentary(PodcastStore) \o update_filters_scopes(pods)
    \o Flatten([i \in 1..Len(downloads) |-> download_scopes(downloads[i])])

\* the messages of loop_msgs that reach the store, each with the scopes its
\* handler takes on the store pods
ScopeMessages(pods) ==
    LET ids == DOMAIN pods.map
        Msg(type, events) == [type |-> type, events |-> events]
    IN  {Msg("FilterChange", update_filters_scopes(pods))}
        \cup {Msg("SyncAll", sync_scopes(pods, None))}
        \cup {Msg("Sync", sync_scopes(pods, Some(p))) : p \in ids}
        \cup {Msg("SyncData", add_or_sync_data_scopes(pods, d)) :
                d \in SeqsUpTo(ids, 1)}
        \cup {Msg("MarkPlayed", mark_played_scopes(pods, p)) : p \in ids}
        \cup {Msg("MarkAllPlayed", mark_all_played_scopes(pods, p)) : p \in ids}
        \cup {Msg("Play", play_file_scopes(pods, p)) : p \in ids}
        \cup {Msg("Download", download_scopes(p)) : p \in ids}
        \cup {Msg("DlComplete", download_complete_scopes(pods, p)) : p \in ids}
        \cup {Msg("Delete", delete_file_scopes(pods, p, removed)) :
                p \in ids, removed \in BOOLEAN}
        \cup {Msg("DeleteAll", delete_files_scopes(pods, p)) : p \in ids}
        \cup {Msg("RemovePodcast", remove_podcast_scopes(pods, p, delete, db_ok)) :
                p \in ids, delete \in BOOLEAN, db_ok \in BOOLEAN}
        \cup {Msg("RemoveEpisode", remove_episode_scopes(pods, p, delete, removed)) :
                p \in ids, delete \in BOOLEAN, removed \in BOOLEAN}
        \cup {Msg("RemoveAllEpisodes", remove_all_episodes_scopes(pods, p, delete)) :
                p \in ids, delete \in BOOLEAN}

(***************************************************************************)
(* SpecScopes: the controller thread inside a handler, one step for each   *)
(* scope it takes or releases.  handled holds the message, the events of   *)
(* its handler, the place of the thread in them and the stores it holds.   *)
(* A store that is held cannot be taken again: the thread stops there.     *)
(***************************************************************************)

InHandler == handled.type # "none" /\ handled.pc <= Len(handled.events)

ScopeFrame ==
    UNCHANGED <<dbvars, config, podcasts, filters, sync_counter, sync_tracker,
                download_tracker, feed_jobs, dl_jobs, sent, dl_batch, mvars>>

\* loop_msgs takes the next message when the handler of the last has returned
ScopeEnter ==
    /\ ~panicked
    /\ ~InHandler
    /\ \E msg \in ScopeMessages(podcasts) :
         handled' = [type |-> msg.type, events |-> msg.events, pc |-> 1, held |-> {}]
    /\ UNCHANGED panicked
    /\ ScopeFrame

ScopeAcquire ==
    /\ ~panicked
    /\ InHandler
    /\ handled.events[handled.pc].op = "acquire"
    /\ IF handled.events[handled.pc].store \in handled.held
       THEN panicked' = TRUE /\ UNCHANGED handled
       ELSE /\ handled' = [handled EXCEPT !.pc = @ + 1,
                                          !.held = @ \cup {handled.events[handled.pc].store}]
            /\ UNCHANGED panicked
    /\ ScopeFrame

ScopeRelease ==
    /\ ~panicked
    /\ InHandler
    /\ handled.events[handled.pc].op = "release"
    /\ handled' = [handled EXCEPT !.pc = @ + 1,
                                  !.held = @ \ {handled.events[handled.pc].store}]
    /\ UNCHANGED panicked
    /\ ScopeFrame

ScopeDispatch ==
    /\ ~panicked
    /\ InHandler
    /\ handled.events[handled.pc].op = "dispatch"
    /\ handled' = [handled EXCEPT !.pc = @ + 1]
    /\ UNCHANGED panicked
    /\ ScopeFrame

ScopesNext ==
    \/ ScopeEnter
    \/ ScopeAcquire
    \/ ScopeRelease
    \/ ScopeDispatch

SpecScopes == LibraryInit /\ [][ScopesNext]_vars

(***************************************************************************)
(* SpecKeep: syncs of a stored podcast whose episode is marked in between. *)
(***************************************************************************)

\* podcast 1 with one episode, played or not, downloaded or not, removed by the
\* user (hidden) in an earlier session or not
KeepInit ==
    /\ \E played \in BOOLEAN, hidden \in BOOLEAN :
         db_episodes = {[LibraryRow(1, 1, played) EXCEPT !.hidden = hidden]}
    /\ db_files \in SUBSET {1}
    /\ Constructed

KeepNext ==
    \/ MarkPlayed
    \/ Sync
    \/ HandleSyncData

SpecKeep == KeepInit /\ [][KeepNext]_vars

(***************************************************************************)
(* SpecBatch: syncs of a stored library of two podcasts, two feed checks   *)
(* in flight at a time, answered in any order by data or by an error.      *)
(***************************************************************************)

BatchInit ==
    /\ db_episodes = {LibraryRow(1, 1, FALSE)}
    /\ db_files = {}
    /\ Constructed

BatchNext ==
    \/ SyncWithin(MaxBatch)
    \/ SyncAllWithin(MaxBatch)
    \/ HandleSyncDataWithin(MaxBatch)
    \/ HandleFeedError

SpecBatch == BatchInit /\ [][BatchNext]_vars

(***************************************************************************)
(* SpecResync and SpecCancel: removals followed by feed checks, and         *)
(* removals while downloads are in flight.                                 *)
(***************************************************************************)

\* the first podcast has one episode, unplayed and without a file
CancelInit ==
    /\ db_episodes = {LibraryRow(1, 1, FALSE)}
    /\ db_files = {}
    /\ Constructed

ResyncNext ==
    \/ RemoveEpisode
    \/ RemoveAllEpisodes
    \/ Sync
    \/ HandleSyncData

SpecResync == CancelInit /\ [][ResyncNext]_vars

CancelNext ==
    \/ RemovePodcast
    \/ RemoveEpisode
    \/ RemoveAllEpisodes
    \/ Download
    \/ HandleDlComplete

SpecCancel == CancelInit /\ [][CancelNext]_vars

(***************************************************************************)
(* SpecFiles: playing and deleting the files of a stored library.          *)
(***************************************************************************)

FilesNext ==
    \/ Play
    \/ Delete
    \/ DeleteAll

SpecFiles == LibraryInit /\ [][FilesNext]_vars

(***************************************************************************)
(* SpecMerge: update_episodes on a stored table and a fetched list.        *)
(***************************************************************************)

\* a stored row of podcast 1 made from a fetched episode
StoredRow(id, e) ==
    [id |-> id, podcast_id |-> 1, title |-> e.title, url |-> e.url,
     description |-> e.description,
     pubdate |-> IF e.pubdate = None THEN None ELSE Some(timestamp(e.pubdate[1])),
     duration |-> e.duration, played |-> FALSE, hidden |-> FALSE]

StoredTable(s) == {StoredRow(i, s[i]) : i \in 1..Len(s)}

\* the stored rows and the fetched list are drawn from the bounded sets; the user
\* may have removed (hidden) the first stored episode
MergeInit ==
    /\ \E s \in SeqsUpTo(EpisodeNoId, MaxMergeSize), hide_first \in BOOLEAN :
         /\ db_episodes = {IF hide_first /\ row.id = 1
                           THEN [row EXCEPT !.hidden = TRUE] ELSE row :
                           row \in StoredTable(s)}
         /\ m_fetched \in SeqsUpTo(EpisodeNoId, MaxMergeSize - Len(s))
    /\ db_podcasts = {[id |-> 1, title |-> "p1", url |-> "f1"]}
    /\ db_files = {}
    /\ config = "Never"
    /\ podcasts = LockVec_new(<< >>)
    /\ filters = [played |-> "All", downloaded |-> "All"]
    /\ sync_counter = 0
    /\ sync_tracker = << >>
    /\ download_tracker = {}
    /\ feed_jobs = EmptyBag
    /\ dl_jobs = EmptyBag
    /\ sent = << >>
    /\ handled = [type |-> "none"]
    /\ panicked = FALSE
    /\ dl_batch = NoBatch
    /\ m_before = db_episodes
    /\ m_result = [added |-> << >>, updated |-> << >>, existing |-> << >>]
    /\ m_runs = 0

\* one sync of podcast 1 with the fetched list; the second run repeats the first
\* with the same list
MergeRun ==
    /\ m_runs < 2
    /\ \E old_episodes \in get_episodes(db_episodes, db_files, 1, TRUE) :
         LET r == update_episodes(db_episodes, old_episodes, 1, "p1", m_fetched)
         IN  /\ db_episodes' = r.eps
             /\ m_result' = [added |-> r.added, updated |-> r.updated,
                             existing |-> r.existing]
    /\ m_before' = db_episodes
    /\ m_runs' = m_runs + 1
    /\ UNCHANGED <<db_podcasts, db_files, ctlvars, m_fetched>>

MergeNext == MergeRun

SpecMerge == MergeInit /\ [][MergeNext]_vars

(***************************************************************************)
(* SpecInsert: the feed of a podcast that is not stored yet (url f2)       *)
(* arrives at a controller whose database holds podcast 1 and its          *)
(* episodes.                                                               *)
(***************************************************************************)

NewFeed == PodcastFeed(None, "f2", None)

InsertInit ==
    /\ \E s \in SeqsUpTo(FeedEpisodes, MaxMergeSize) :
         /\ db_episodes = StoredTable(s)
         /\ m_fetched \in SeqsUpTo(EpisodeNoId, MaxMergeSize - Len(s))
    /\ db_podcasts = {[id |-> 1, title |-> "p1", url |-> "f1"]}
    /\ db_files = {}
    /\ config = "Never"
    /\ filters = [played |-> "All", downloaded |-> "All"]
    /\ podcasts \in {LockVec_new(list) :
                       list \in get_podcasts(db_podcasts, db_episodes, db_files)}
    /\ sync_counter = 0
    /\ sync_tracker = << >>
    /\ download_tracker = {}
    /\ feed_jobs = SetToBag({NewFeed})
    /\ dl_jobs = EmptyBag
    /\ sent = << >>
    /\ handled = [type |-> "AddFeed", url |-> NewFeed.url]
    /\ panicked = FALSE
    /\ dl_batch = NoBatch
    /\ m_before = db_episodes
    /\ m_result = [added |-> << >>, updated |-> << >>, existing |-> << >>]
    /\ m_runs = 0

\* the feed check answers NewData with the fetched list
InsertRun ==
    /\ m_runs = 0
    /\ \E db_ok \in BOOLEAN, reload_ok \in BOOLEAN :
         LET pod == [title |-> PodTitle(NewFeed.url), url |-> NewFeed.url,
                     episodes |-> m_fetched]
         IN  /\ NewData(NewFeed, pod, db_ok, reload_ok)
             /\ m_result' = [added |-> insert_podcast(db_podcasts, db_episodes, pod,
                                                       db_ok).result.added,
                             updated |-> << >>, existing |-> << >>]
    /\ m_before' = db_episodes
    /\ m_runs' = 1
    /\ UNCHANGED m_fetched

InsertNext == InsertRun

SpecInsert == InsertInit /\ [][InsertNext]_vars

(***************************************************************************)
(* Properties of the Sync Merger, checked under SpecMerge.                 *)
(***************************************************************************)

\* the pubdate column a fetched episode is stored with
StoredPubdate(f) == IF f.pubdate = None THEN None ELSE Some(timestamp(f.pubdate[1]))

\* the score of section 4.2 of a stored row against a fetched episode
Score(f, row) ==
    b2i(f.title = row.title) + b2i(f.url = row.url)
    + b2i(f.pubdate # None /\ row.pubdate # None /\ StoredPubdate(f) = row.pubdate)

\* the stored rows (of the table before the run) that reach the threshold
Candidates(f) == {row \in m_before : Score(f, row) >= 2}

\* at least one of the five compared fields differs
Differs(f, row) ==
    \/ f.title # row.title
    \/ f.url # row.url
    \/ f.description # row.description
    \/ f.duration # row.duration
    \/ StoredPubdate(f) # row.pubdate

\* the fetched episode that the run processed k-th (the list is walked in reverse)
Processed(k) == m_fetched[Len(m_fetched) - k + 1]

\* row a was published strictly later than row b (a row without date is the oldest)
Newer(a, b) == a.pubdate # None /\ (b.pubdate = None \/ a.pubdate[1] > b.pubdate[1])

\* C6 (as claimed): the second run with the same fetched list inserts nothing and
\* updates nothing.
C6_SecondRunIsNoop ==
    m_runs = 2 => (m_result.added = << >> /\ m_result.updated = << >>)

\* C7 (as claimed): a single fetched episode with the title and URL of a stored row
\* (the only row reaching the threshold) but another publish date is reported as an
\* update of that row, its stored publish date is overwritten, nothing is inserted.
C7_DateChangeIsUpdate ==
    (m_runs = 1 /\ Len(m_fetched) = 1) =>
        \A row \in m_before :
            (/\ row.title = m_fetched[1].title
             /\ row.url = m_fetched[1].url
             /\ row.pubdate # StoredPubdate(m_fetched[1])
             /\ Candidates(m_fetched[1]) = {row})
            => /\ m_result.added = << >>
               /\ m_result.updated = << row.id >>
               /\ \E r \in db_episodes :
                     r.id = row.id /\ r.pubdate = StoredPubdate(m_fetched[1])

\* C8 (as claimed): a single fetched episode that is matched to a stored row is
\* reported as updated exactly when one of title, URL, description, duration and
\* publish timestamp differs between the two.
C8_UpdateIffDiffers ==
    (m_runs = 1 /\ Len(m_fetched) = 1 /\ m_result.existing[1] # None) =>
        \A row \in m_before :
            row.id = m_result.existing[1][1] =>
                ((m_result.updated = << row.id >>) <=> Differs(m_fetched[1], row))

\* C10 (as claimed): every fetched episode for which some stored row reaches the
\* threshold is matched to one of those rows, and no other of them was published
\* later than the matched one (newest wins).
C10_NewestCandidateWins ==
    m_runs >= 1 =>
        \A k \in 1..Len(m_fetched) :
            Candidates(Processed(k)) # {} =>
                \E row \in Candidates(Processed(k)) :
                    /\ m_result.existing[k] = Some(row.id)
                    /\ \A c \in Candidates(Processed(k)) : ~Newer(c, row)

\* C10 (amended): every fetched episode for which some stored row reaches the
\* threshold is matched to one of those rows, and no other of them was published
\* earlier than the matched one (oldest wins, a row without date before any dated).
C10_OldestCandidateWins ==
    m_runs >= 1 =>
        \A k \in 1..Len(m_fetched) :
            Candidates(Processed(k)) # {} =>
                \E row \in Candidates(Processed(k)) :
                    /\ m_result.existing[k] = Some(row.id)
                    /\ \A c \in Candidates(Processed(k)) : ~Newer(row, c)

\* C10 witness: a run in which a fetched episode had two candidates of different
\* age and was matched to the older one
C10_Witness ==
    /\ m_runs = 1
    /\ \E k \in 1..Len(m_fetched) :
         \E row, c \in Candidates(Processed(k)) :
            Newer(c, row) /\ m_result.existing[k] = Some(row.id)

(***************************************************************************)
(* Properties of a first insert, checked under SpecInsert.                 *)
(***************************************************************************)

\* the largest id of the episodes table before the insert
BaseId == SetMax({0} \cup {row.id : row \in m_before})

\* the insert of the fetched list succeeded and the store was reloaded
InsertDone == m_runs = 1 /\ handled.type = "NewData" /\ handled.ok /\ ~panicked

\* the row holds the fetched episode f under the id
HoldsFetched(row, id, f) ==
    /\ row.id = id
    /\ row.title = f.title
    /\ row.url = f.url
    /\ row.description = f.description
    /\ row.duration = f.duration
    /\ row.pubdate = StoredPubdate(f)

\* n inserts and no update are reported, n rows are new in the table, and the
\* in-memory store holds exactly the new ids under the new podcast
InsertedAll ==
    LET n == Len(m_fetched)
        new_rows == db_episodes \ m_before
        pod_id == last_insert_rowid(db_podcasts \ {p \in db_podcasts : p.url = NewFeed.url})
    IN  /\ Len(m_result.added) = n
        /\ m_result.updated = << >>
        /\ sent[Len(sent)] = UiSpawnNotif(format("Successfully added {} episodes.",
                                                 << >>, <<n>>), FALSE)
        /\ Cardinality(new_rows) = n
        /\ \A row \in new_rows : row.podcast_id = pod_id
        /\ pod_id \in DOMAIN podcasts.map
        /\ DOMAIN podcasts.map[pod_id].episodes.map = {row.id : row \in new_rows}

\* C9 (as claimed): a first fetch of n episodes gives n inserts, no update, a store
\* with exactly those n episodes, and the i-th fetched episode gets the i-th new
\* id, so ids ascend in fetch order.
C9_IdsAscendInFetchOrder ==
    InsertDone =>
        /\ InsertedAll
        /\ \A i \in 1..Len(m_fetched) :
             \E row \in db_episodes : HoldsFetched(row, BaseId + i, m_fetched[i])

\* C9 (amended): a first fetch of n episodes that is stored successfully gives n
\* inserts, no update, a store with exactly those n episodes, and the i-th fetched
\* episode gets the i-th new id counted from the end of the list, so ids descend
\* in fetch order.
C9_IdsDescendInFetchOrder ==
    InsertDone =>
        /\ InsertedAll
        /\ \A i \in 1..Len(m_fetched) :
             \E row \in db_episodes :
                HoldsFetched(row, BaseId + Len(m_fetched) - i + 1, m_fetched[i])

\* C9 witness: two different episodes were fetched and stored, the first of the
\* list under the larger id
C9_Witness ==
    /\ InsertDone
    /\ Len(m_fetched) = 2
    /\ m_fetched[1] # m_fetched[2]
    /\ \E row \in db_episodes : HoldsFetched(row, BaseId + 2, m_fetched[1])

(***************************************************************************)
(* Properties of the message loop, checked under Spec.                     *)
(***************************************************************************)

\* the download jobs in flight for the episode id
DlCount(bag, id) == JobCount(bag, {j \in BagToSet(bag) : j.id = id})

\* the episodes of the in-memory store
StoreEpisodes ==
    {podcasts.map[pair[1]].episodes.map[pair[2]] : pair \in StorePairs}

\* C1: at most one download job per episode id is in flight, every job in flight
\* is for an id of the tracking set, and no step dispatches a job for an id that
\* is in the tracking set.
C1_NoSecondDispatch ==
    /\ [](\A j \in BagToSet(dl_jobs) :
            DlCount(dl_jobs, j.id) = 1 /\ j.id \in download_tracker)
    /\ [][\A id \in download_tracker :
            DlCount(dl_jobs', id) <= DlCount(dl_jobs, id)]_vars

\* C1 witness: a Download request for an episode without file whose id was in the
\* tracking set has been handled, and nothing was dispatched or sent
C1_Witness ==
    /\ handled.type = "Download"
    /\ handled.ep_id \in download_tracker
    /\ \E ep \in StoreEpisodes : ep.id = handled.ep_id /\ ep.path = None
    /\ DlCount(dl_jobs, handled.ep_id) = 1
    /\ sent = << >>

\* C2 (as claimed): the tracking set is the set of the episode ids with a download
\* job in flight.
C2_TrackerIsInFlight ==
    ~panicked => download_tracker = {j.id : j \in BagToSet(dl_jobs)}

\* C3 (as claimed): a DownloadAll with nothing in flight (its one message is the
\* tracker notification of the dispatch) dispatches one job per undownloaded
\* episode of the podcast and tracks exactly those; once none of its
\* jobs is in flight the tracking set is empty and one "Downloads complete." was
\* sent, and never more than one.
C3_DownloadAllScenario ==
    (dl_batch.active /\ ~panicked) =>
        /\ dl_batch.notifs <= 1
        /\ (handled.type = "DownloadAll" /\ Len(sent) = 1) =>
              LET undownloaded ==
                      {id \in DOMAIN podcasts.map[handled.pod_id].episodes.map :
                         podcasts.map[handled.pod_id].episodes.map[id].path = None}
              IN  /\ download_tracker = undownloaded
                  /\ BagCardinality(dl_jobs) = Cardinality(undownloaded)
                  /\ dl_batch.k = Cardinality(undownloaded)
        /\ (dl_jobs = EmptyBag) => (download_tracker = {} /\ dl_batch.notifs = 1)

\* C4 (as claimed): the sync counter is the number of sync jobs in flight.
C4_CounterIsInFlight ==
    ~panicked => sync_counter = JobCount(feed_jobs, SyncJobs)

\* C5 (as claimed): a step that brings the sync counter back to 0 sends a
\* "Sync complete" notification whose totals include every result accumulated
\* in the batch, and ends the batch.
C5_ZeroMeansComplete ==
    [][(sync_counter > 0 /\ sync_counter' = 0) =>
          /\ sync_tracker' = << >>
          /\ \E i \in 1..Len(sent') :
               /\ sent'[i].type = "UiSpawnNotif"
               /\ sent'[i].text.template = SyncComplete(0, 0).text.template
               /\ sent'[i].text.numbers[1] >= SumLen(sync_tracker, "added")
               /\ sent'[i].text.numbers[2] >= SumLen(sync_tracker, "updated")]_vars

(***************************************************************************)
(* C11, checked under SpecMerge.                                           *)
(***************************************************************************)

\* the positions, in processing order, of the fetched episodes that were inserted
Unmatched == SelectSeq([k \in 1..Len(m_fetched) |-> k],
                       LAMBDA k : m_result.existing[k] = None)

StoreIds(pods) == UNION {DOMAIN pods.map[p].episodes.map : p \in DOMAIN pods.map}

\* the step handles the answer of a feed check
FeedAnswered == BagCardinality(feed_jobs') < BagCardinality(feed_jobs)

\* C12: an episode the user removed does not come back with a later sync: a
\* stored episode that is not in the in-memory store before a feed check is
\* answered is not in it afterwards, and no second row is stored for it in its podcast
C12_RemovedStaysRemoved ==
    [][FeedAnswered =>
         \A r \in db_episodes :
           r.id \notin StoreIds(podcasts) =>
             /\ r.id \notin StoreIds(podcasts')
             /\ \A n \in db_episodes' :
                  n.id \notin {x.id : x \in db_episodes} =>
                    ~(n.podcast_id = r.podcast_id /\ n.title = r.title
                      /\ n.url = r.url)]_vars

(***************************************************************************)
(* Filters (SpecLibrary)                                                   *)
(***************************************************************************)

\* the last handler ended with update_filters and returned
FiltersRecomputed ==
    handled.type \in {"FilterChange", "MarkPlayed", "MarkAllPlayed"} /\ ~panicked

\* what the user asked to see, in the words of the filter names
Shown(ep, f) ==
    /\ \/ f.played = "All"
       \/ f.played = "NegativeCases" /\ ~ep.played
       \/ f.played = "PositiveCases" /\ ep.played
    /\ \/ f.downloaded = "All"
       \/ f.downloaded = "PositiveCases" /\ ep.path # None
       \/ f.downloaded = "NegativeCases" /\ ep.path = None

\* the place of id in a sequence without repeats
IndexOf(seq, id) == CHOOSE i \in 1..Len(seq) : seq[i] = id

\* sub holds exactly the ids of seq that are in keep, once each, in the order of seq
IsFilteredFrom(sub, seq, keep) ==
    /\ Range(sub) = Range(seq) \cap keep
    /\ \A i, j \in 1..Len(sub) :
         i < j => IndexOf(seq, sub[i]) < IndexOf(seq, sub[j])

\* C13: after update_filters every podcast's filtered order is its canonical
\* order cut down to the episodes that pass both filters, in the same relative
\* order; with "unplayed only" and downloaded = All these are the episodes with
\* played = false
C13_FilteredOrderIsSubsequence ==
    FiltersRecomputed =>
      \A p \in DOMAIN podcasts.map :
        LET eps == podcasts.map[p].episodes
        IN  /\ IsFilteredFrom(eps.filtered_order, eps.order,
                              {id \in DOMAIN eps.map : Shown(eps.map[id], filters)})
            /\ filters = [played |-> "NegativeCases", downloaded |-> "All"] =>
                 Range(eps.filtered_order) =
                   {id \in DOMAIN eps.map : eps.map[id].played = FALSE}

\* a podcast with a played and an unplayed episode under "unplayed only"
C13_Witness ==
    /\ FiltersRecomputed
    /\ filters = [played |-> "NegativeCases", downloaded |-> "All"]
    /\ \E p \in DOMAIN podcasts.map :
         LET eps == podcasts.map[p].episodes
         IN  /\ Len(eps.order) = 2
             /\ Len(eps.filtered_order) = 1
             /\ \E id \in DOMAIN eps.map : eps.map[id].played

\* the step handles a FilterChange
FilterChanged == m_runs' # m_runs /\ handled'.type = "FilterChange"

\* the cycles as the user sees them: what is shown after the next change
PlayedCycle ==
    [All |-> "NegativeCases", NegativeCases |-> "PositiveCases", PositiveCases |-> "All"]
DownloadedCycle ==
    [All |-> "PositiveCases", PositiveCases |-> "NegativeCases", NegativeCases |-> "All"]

\* C14: a FilterChange moves one filter one place along its cycle (played: all,
\* unplayed only, played only; downloaded: all, downloaded only, undownloaded
\* only) and leaves the other filter alone; three changes of one filter bring it
\* back, one or two do not
C14_FilterCycles ==
    [][FilterChanged =>
         /\ \/ /\ filters'.played = PlayedCycle[filters.played]
               /\ filters'.downloaded = filters.downloaded
            \/ /\ filters'.downloaded = DownloadedCycle[filters.downloaded]
               /\ filters'.played = filters.played
         /\ \A c \in {PlayedCycle, DownloadedCycle}, x \in DOMAIN PlayedCycle :
              c[c[c[x]]] = x /\ c[x] # x /\ c[c[x]] # x]_vars

\* three changes of the played filter in a row: it is back at All
C14_Witness ==
    /\ m_runs = 3
    /\ handled.type = "FilterChange"
    /\ ~panicked
    /\ filters = [played |-> "All", downloaded |-> "All"]
    /\ sent[1].text.names = <<"Played and unplayed">>

\* the podcasts with an episode the filters show
VisiblePodcasts(pods, f) ==
    {p \in DOMAIN pods.map :
       \E id \in DOMAIN pods.map[p].episodes.map : Shown(pods.map[p].episodes.map[id], f)}

\* C15: after update_filters the filtered podcast list holds, in canonical order,
\* exactly the podcasts with an episode visible under the filters
C15_FilteredPodcastsHaveVisibleEpisode ==
    FiltersRecomputed =>
      IsFilteredFrom(podcasts.filtered_order, podcasts.order,
                     VisiblePodcasts(podcasts, filters))

\* one podcast is listed, and one that has episodes, none of them visible, is not
C15_Witness ==
    /\ FiltersRecomputed
    /\ Len(podcasts.filtered_order) = 1
    /\ \E p \in DOMAIN podcasts.map :
         /\ p \notin Range(podcasts.filtered_order)
         /\ podcasts.map[p].episodes.order # << >>

(***************************************************************************)
(* The store after removals (SpecLibrary)                                  *)
(***************************************************************************)

NoRepeats(seq) == \A i, j \in 1..Len(seq) : seq[i] = seq[j] => i = j

\* the invariant of one store
WellFormed(lv) ==
    /\ Range(lv.filtered_order) \subseteq Range(lv.order)
    /\ Range(lv.order) \subseteq DOMAIN lv.map
    /\ NoRepeats(lv.order)
    /\ NoRepeats(lv.filtered_order)

\* C16: in every state the podcast store and every episode store are well formed:
\* the filtered order is within the canonical order, the canonical order within
\* the keys of the mapping, and no id is repeated
C16_StoreInvariant ==
    /\ WellFormed(podcasts)
    /\ \A p \in DOMAIN podcasts.map : WellFormed(podcasts.map[p].episodes)

\* C17: after every handler has returned, the filtered order of every podcast
\* and the filtered podcast list are what the current filters give on the
\* current store
C17_DerivedStateFresh ==
    (handled.type # "none" /\ ~panicked) =>
      /\ IsFilteredFrom(podcasts.filtered_order, podcasts.order,
                        VisiblePodcasts(podcasts, filters))
      /\ \A p \in DOMAIN podcasts.map :
           LET eps == podcasts.map[p].episodes
           IN  IsFilteredFrom(eps.filtered_order, eps.order,
                              {id \in DOMAIN eps.map : Shown(eps.map[id], filters)})

(***************************************************************************)
(* Removal while a download is in flight (SpecCancel)                      *)
(***************************************************************************)

\* the step handles the Complete message of a download
DlAnswered ==
    BagCardinality(dl_jobs') < BagCardinality(dl_jobs) /\ handled'.type = "DlComplete"

\* C18: when the episode (or its podcast) was removed while its download was in
\* flight, handling the Complete message is a no-op: the controller does not
\* abort and the store stays as it is
C18_CompletionAfterRemovalIsNoop ==
    [][(DlAnswered /\ ~HasEpisode(podcasts, handled'.ep_data.pod_id,
                                  handled'.ep_data.id)) =>
         (~panicked' /\ podcasts' = podcasts)]_vars

(***************************************************************************)
(* Storage errors in the commands on the library (SpecLibrary)             *)
(***************************************************************************)

\* the last handler was mark_all_played and the get_episodes that reloads the
\* store returned Err
ReloadFailed == handled.type = "MarkAllPlayed" /\ ~handled.ok

ErrorNotified == \E i \in 1..Len(sent) : sent[i].type = "UiSpawnNotif" /\ sent[i].error

\* C19: a storage call that fails does not stop the controller, the re-reads that
\* refresh the store included: the handler sends an error notification and the
\* message loop goes on
C19_StorageErrorIsNotified == ReloadFailed => (~panicked /\ ErrorNotified)

\* the last handler was mark_played and set_played_status returned Err
WriteFailed == handled.type = "MarkPlayed" /\ ~handled.ok

\* the played flag of every episode of the store is the one of its row
PlayedAgrees ==
    \A p \in DOMAIN podcasts.map :
      \A id \in DOMAIN podcasts.map[p].episodes.map :
        \A r \in db_episodes :
          r.id = id => r.played = podcasts.map[p].episodes.map[id].played

\* C20: when set_played_status fails in mark_played, the played flag in memory
\* stays as it was and an error notification is sent: a store that agreed with
\* the table about every played flag before the command agrees after it
C20_FailedWriteLeavesMemory ==
    [][(PlayedAgrees /\ WriteFailed') => (PlayedAgrees' /\ ErrorNotified')]_vars

(***************************************************************************)
(* Files (SpecFiles)                                                       *)
(***************************************************************************)

\* the step handles a Delete or a DeleteAll
DeleteHandled == m_runs' # m_runs /\ handled'.type \in {"Delete", "DeleteAll"}

\* the episodes of the store fs::remove_file was called for in the step, and the
\* ones it succeeded for
DeleteAsked ==
    IF handled'.type = "Delete"
    THEN {handled'.ep_id} \cap WithPath(handled'.pod_id)
    ELSE WithPath(handled'.pod_id)
DeleteDone ==
    IF handled'.type = "Delete"
    THEN IF handled'.fs_ok THEN DeleteAsked ELSE {}
    ELSE handled'.fs_ok_ids

\* the path of an episode of the store
PathIn(pods, id) ==
    LET p == CHOOSE q \in DOMAIN pods.map : id \in DOMAIN pods.map[q].episodes.map
    IN  pods.map[p].episodes.map[id].path

\* C21: when fs::remove_file fails for an episode, its file record and its path
\* in memory stay and an error notification is sent; a file record is removed and
\* a path cleared only for an episode whose file was removed, in Delete and for
\* each episode of DeleteAll
C21_DeleteOnlyAfterFsSuccess ==
    [][DeleteHandled =>
         /\ \A id \in DeleteAsked \ DeleteDone :
              /\ (id \in db_files') = (id \in db_files)
              /\ PathIn(podcasts', id) = PathIn(podcasts, id)
              /\ ErrorNotified'
         /\ \A id \in StoreIds(podcasts) :
              (\/ id \in db_files \ db_files'
               \/ PathIn(podcasts', id) # PathIn(podcasts, id)) => id \in DeleteDone]_vars

\* a DeleteAll that removed one file of a podcast and failed on another
C21_Witness ==
    /\ handled.type = "DeleteAll"
    /\ ~panicked
    /\ ErrorNotified
    /\ \E id \in handled.fs_ok_ids : PathIn(podcasts, id) = None
    /\ \E id \in WithPath(handled.pod_id) : id \notin handled.fs_ok_ids

(***************************************************************************)
(* Removal with the files deleted first (SpecLibrary)                      *)
(***************************************************************************)

\* the handler reported that it could not delete the file of an episode
DeleteErrorSent(msgs) ==
    \E i \in 1..Len(msgs) :
      /\ msgs[i].type = "UiSpawnNotif"
      /\ msgs[i].error
      /\ msgs[i].text.template = "Error deleting \"{title}\""

\* the step handles a RemoveEpisode whose file deletion failed on the file
\* system, while hide_episode and the reload of the episodes succeed
RemovedWithMissingFile ==
    /\ m_runs' # m_runs
    /\ handled'.type = "RemoveEpisode"
    /\ DeleteErrorSent(sent')
    /\ handled'.ok
    /\ ~panicked'

\* the episode stores that know id: by key, canonical order or filtered order
Knows(pods, id) ==
    {p \in DOMAIN pods.map :
       \/ id \in DOMAIN pods.map[p].episodes.map
       \/ id \in Range(pods.map[p].episodes.order)
       \/ id \in Range(pods.map[p].episodes.filtered_order)}

\* C22: an episode removed with delete-files = true whose file is missing on
\* disk is hidden in storage and gone from the in-memory episode store all the
\* same, and the failed deletion is reported
C22_HideIndependentOfDelete ==
    [][RemovedWithMissingFile =>
         LET gone == StoreIds(podcasts) \ StoreIds(podcasts')
         IN  /\ Cardinality(gone) = 1
             /\ \A id \in gone :
                  /\ \A r \in db_episodes' : r.id = id => r.hidden
                  /\ Knows(podcasts', id) = {}]_vars

(***************************************************************************)
(* Scopes on the store (SpecFiles)                                         *)
(***************************************************************************)

\* C23: no handler enters the store again while it still holds a scope on it,
\* so no handler stops the controller thread on its own lock; in particular a
\* Delete of a downloaded episode whose file and file record are both removed
\* returns with the controller running
C23_NoReentrantScope ==
    handled.type \in {"Play", "Delete", "DeleteAll"} => ~panicked

(***************************************************************************)
(* The download policy at the end of a sync batch (Spec)                   *)
(***************************************************************************)

\* the step handles the SyncData that brings the count of pending syncs to zero
BatchDone ==
    /\ handled'.type = "SyncData"
    /\ handled'.ok
    /\ ~panicked'
    /\ sync_counter' = 0

\* the episodes the batch added to storage: those of the feeds handled before,
\* kept in sync_tracker, and those of the feed handled in the step
NewIds ==
    UNION {{res.added[i].id : i \in 1..Len(res.added)} :
             res \in {sync_tracker[k] : k \in 1..Len(sync_tracker)}}
    \cup ({r.id : r \in db_episodes'} \ {r.id : r \in db_episodes})

Popups(msgs) == SelectSeq(msgs, LAMBDA m : m.type = "UiSpawnDownloadPopup")

DirErrors(msgs) ==
    SelectSeq(msgs, LAMBDA m : /\ m.type = "UiSpawnNotif"
                               /\ m.error
                               /\ m.text.template = "Could not create dir: {pod_title}")

JobsFor(bag, id) == JobCount(bag, {j \in BagToSet(bag) : j.id = id})

\* the policy but for the Always case
PolicyButAlways ==
    IF NewIds = {}
    THEN /\ dl_jobs' = dl_jobs
         /\ download_tracker' = download_tracker
         /\ Popups(sent') = << >>
    ELSE CASE config = "Always" -> Popups(sent') = << >>
           [] config \in {"AskSelected", "AskUnselected"} ->
                /\ Len(Popups(sent')) = 1
                /\ LET popup == Popups(sent')[1]
                   IN  /\ popup.selected = (config = "AskSelected")
                       /\ Len(popup.new_eps) = Cardinality(NewIds)
                       /\ {popup.new_eps[i].id : i \in 1..Len(popup.new_eps)} = NewIds
                /\ dl_jobs' = dl_jobs
                /\ download_tracker' = download_tracker
           [] config = "Never" ->
                /\ Popups(sent') = << >>
                /\ dl_jobs' = dl_jobs
                /\ download_tracker' = download_tracker

PlayHandled == m_runs' # m_runs /\ handled'.type = "Play"

DeleteAllHandled == m_runs' # m_runs /\ handled'.type = "DeleteAll"

Notifs(msgs) == SelectSeq(msgs, LAMBDA m : m.type = "UiSpawnNotif")

\* a file could not be removed from the file system
FsFailed == handled'.fs_ok_ids # WithPath(handled'.pod_id)

\* the removal of the file records failed: remove_files returned Err, or the
\* record of a removed file is still there
RecordsFailed == ~handled'.ok \/ handled'.fs_ok_ids \cap db_files' # {}

\* C26: DeleteAll goes through every file of the podcast, whatever failed before
\* (each file that can be removed is removed and its path cleared), and ends
\* with exactly one notification, an error exactly when a removal from the file
\* system or the removal of the file records failed
C26_DeleteAllReportsOnce ==
    [][DeleteAllHandled =>
         /\ \A id \in handled'.fs_ok_ids : PathIn(podcasts', id) = None
         /\ Len(Notifs(sent')) = 1
         /\ sent'[Len(sent')].type = "UiSpawnNotif"
         /\ Notifs(sent')[1].error = (FsFailed \/ RecordsFailed)]_vars

(***************************************************************************)
(* Download requests and completions (SpecDownloads)                       *)
(***************************************************************************)

\* the step handles the Complete message of a download job
DlCompleteHandled ==
    /\ handled'.type = "DlComplete"
    /\ BagCardinality(dl_jobs') < BagCardinality(dl_jobs)

\* the filtered order of the episode's podcast lists id
Listed(pods, id) ==
    \E p \in DOMAIN pods.map : id \in Range(pods.map[p].episodes.filtered_order)

\* C27: when insert_file succeeds for a Complete message, the episode of the
\* store gets the reported path, its id leaves the tracking set and the
\* filtered orders are those of the filters in force; when insert_file fails,
\* an error notification is sent and the path of the episode stays unset: the
\* path is never set in memory without the file record in storage
C27_CompletionPairsPathWithRecord ==
    [][DlCompleteHandled =>
         LET id == handled'.ep_data.id
             pod_id == handled'.ep_data.pod_id
         IN  /\ ~panicked'
             /\ IF handled'.ok
                THEN /\ PathIn(podcasts', id) = Some(id)
                     /\ id \in db_files'
                     /\ id \notin download_tracker'
                     /\ podcasts' = update_filters(podcasts', filters')
                     /\ Listed(podcasts', id)
                          = Shown(podcasts'.map[pod_id].episodes.map[id], filters')
                ELSE /\ ErrorNotified'
                     /\ PathIn(podcasts', id) = None
                     /\ podcasts' = podcasts
                     /\ db_files' = db_files]_vars

\* a completed download brought its episode into the list of downloaded episodes
C27_Witness ==
    /\ handled.type = "DlComplete"
    /\ handled.ok
    /\ ~panicked
    /\ filters.downloaded = "PositiveCases"
    /\ PathIn(podcasts, handled.ep_data.id) = Some(handled.ep_data.id)
    /\ Listed(podcasts, handled.ep_data.id)
    /\ handled.ep_data.id \notin download_tracker

\* the step handles a download request of the user
DownloadRequested ==
    handled'.type \in {"Download", "DownloadMulti", "DownloadAll"}

\* the jobs the step dispatched, and the ids it added to the tracking set
Dispatched == {j \in BagToSet(dl_jobs') : CopiesIn(j, dl_jobs') > CopiesIn(j, dl_jobs)}
Tracked == download_tracker' \ download_tracker

\* the episodes a request for one episode or for a whole podcast is about: those
\* of the request without a local path that are not being downloaded
Requested ==
    LET eps == podcasts.map[handled'.pod_id].episodes.map
        asked == IF handled'.type = "Download" THEN {handled'.ep_id} ELSE DOMAIN eps
    IN  {id \in asked : eps[id].path = None /\ id \notin download_tracker}

\* C28: a download request dispatches no job for an episode that has a local
\* path; a request for one episode or one podcast either tracks and dispatches
\* every episode it is about, or, the directory not being created, tracks
\* nothing, dispatches nothing and sends an error notification
C28_NoJobForDownloadedOrWithoutDir ==
    [][DownloadRequested =>
         /\ ~panicked'
         /\ \A j \in Dispatched :
              /\ PathIn(podcasts, j.id) = None
              /\ CopiesIn(j, dl_jobs') = CopiesIn(j, dl_jobs) + 1
         /\ Tracked = {j.id : j \in Dispatched}
         /\ download_tracker \subseteq download_tracker'
         /\ handled'.type # "DownloadMulti" =>
              \/ /\ Tracked = Requested
                 /\ DirErrors(sent') = << >>
              \/ /\ Requested # {}
                 /\ Tracked = {}
                 /\ dl_jobs' = dl_jobs
                 /\ Len(DirErrors(sent')) = 1]_vars

\* the directory could not be created for a podcast with a downloaded and an
\* undownloaded episode
C28_Witness ==
    /\ handled.type = "DownloadAll"
    /\ DirErrors(sent) # << >>
    /\ download_tracker = {}
    /\ dl_jobs = EmptyBag
    /\ \E a, b \in DOMAIN podcasts.map[handled.pod_id].episodes.map :
         /\ podcasts.map[handled.pod_id].episodes.map[a].path = None
         /\ podcasts.map[handled.pod_id].episodes.map[b].path # None

(***************************************************************************)
(* File records after DeleteAll (SpecFiles)                                *)
(***************************************************************************)

\* C29: after a DeleteAll whose remove_files statement ran without error, every
\* episode whose file was removed, be it one or several, has neither a file
\* record in storage nor a path in memory, so that no later reload of the
\* store from storage gives it a path again
C29_DeleteAllRemovesRecords ==
    [][(DeleteAllHandled /\ handled'.ok) =>
         \A id \in handled'.fs_ok_ids :
            /\ PathIn(podcasts', id) = None
            /\ id \notin db_files'
            /\ \A list \in get_podcasts(db_podcasts', db_episodes', db_files') :
                 PathIn(LockVec_new(list), id) = None]_vars

(***************************************************************************)
(* RemovePodcast (SpecLibrary)                                             *)
(***************************************************************************)

\* the step handles a RemovePodcast and the controller goes on
PodcastRemovalHandled ==
    /\ m_runs' # m_runs
    /\ handled'.type = "RemovePodcast"
    /\ ~panicked'

\* the podcast store knows pod_id: by key, canonical order or filtered order
KnowsPodcast(pods, pod_id) ==
    \/ pod_id \in DOMAIN pods.map
    \/ pod_id \in Range(pods.order)
    \/ pod_id \in Range(pods.filtered_order)

\* C30: RemovePodcast removes the podcast whether or not the deletion of its
\* files went through.  When remove_podcast fails in storage, an error
\* notification is sent and the store holds the podcasts and episodes it held,
\* in the same order; when it succeeds, the podcast and all its episodes are
\* absent from the store and the menus are told to refresh
C30_RemovePodcastRefreshesStore ==
    [][PodcastRemovalHandled =>
         IF handled'.ok
         THEN LET gone == DOMAIN podcasts.map \ DOMAIN podcasts'.map
              IN  /\ Cardinality(gone) = 1
                  /\ \A pod_id \in gone :
                       /\ ~KnowsPodcast(podcasts', pod_id)
                       /\ \A id \in DOMAIN podcasts.map[pod_id].episodes.map :
                            /\ id \notin StoreIds(podcasts')
                            /\ \A r \in db_episodes' : r.id # id
                       /\ \A r \in db_podcasts' : r.id # pod_id
                  /\ sent'[Len(sent')] = UiUpdateMenus
         ELSE /\ ErrorNotified'
              /\ DOMAIN podcasts'.map = DOMAIN podcasts.map
              /\ podcasts'.order = podcasts.order
              /\ StoreIds(podcasts') = StoreIds(podcasts)
              /\ db_podcasts' = db_podcasts]_vars

(***************************************************************************)
(* Dispatch of feed checks (SpecBatch)                                     *)
(***************************************************************************)

\* the step handles a Sync or a SyncAll
SyncDispatched == handled'.type \in {"Sync", "SyncAll"}

\* the feed checks the step handed to the pool
NewFeedJobs == feed_jobs' (-) feed_jobs

\* the stores held before the i-th event of a handler
HeldBefore(events, i) ==
    {store \in {events[k].store : k \in 1..Len(events)} :
       Cardinality({k \in 1..(i - 1) : events[k] = Acquire(store)})
         > Cardinality({k \in 1..(i - 1) : events[k] = Release(store)})}

\* C31: Sync hands one feed check to the pool and SyncAll one for each podcast
\* of the store; the count of pending syncs grows by the number of feed checks
\* handed over, the store and the tables stay as they are, and no scope on a
\* store is held when a feed check is handed over
C31_SyncDispatch ==
    [][SyncDispatched =>
         LET one == handled'.type = "Sync"
             targets == IF one THEN {handled'.pod_id} ELSE DOMAIN podcasts.map
             events == sync_scopes(podcasts,
                                   IF one THEN Some(handled'.pod_id) ELSE None)
             dispatches == SelectSeq(events, LAMBDA e : e.op = "dispatch")
         IN  /\ BagCardinality(NewFeedJobs) = Cardinality(targets)
             /\ \A pod_id \in targets :
                  JobCount(NewFeedJobs,
                           {j \in BagToSet(NewFeedJobs) : j.id = Some(pod_id)}) = 1
             /\ sync_counter' = sync_counter + BagCardinality(NewFeedJobs)
             /\ podcasts' = podcasts
             /\ UNCHANGED dbvars
             /\ SeqToBag([i \in 1..Len(dispatches) |-> dispatches[i].job[1]])
                  = NewFeedJobs
             /\ \A i \in 1..Len(events) :
                  events[i].op = "dispatch" => HeldBefore(events, i) = {}]_vars

\* a SyncAll handed over the feed checks of two podcasts
C31_Witness ==
    /\ handled.type = "SyncAll"
    /\ sync_counter = 2
    /\ BagCardinality(feed_jobs) = 2
    /\ Cardinality(DOMAIN podcasts.map) = 2

(***************************************************************************)
(* Order of the scopes (SpecScopes)                                        *)
(***************************************************************************)

\* the thread is about to take a scope on the podcast store
TakesPodcastStore == InHandler /\ handled.events[handled.pc] = Acquire(PodcastStore)

HeldEpisodeStores == {store \in handled.held : store[1] = "episodes"}

\* C32: in every handler the scopes are taken from the outer store to the inner
\* one: the controller never takes a scope on the podcast store while it holds
\* a scope on the episode store of a podcast
C32_OuterToInner == TakesPodcastStore => HeldEpisodeStores = {}

\* the thread holds the podcast store and, inside it, an episode store
C32_Witness ==
    /\ handled.type = "MarkAllPlayed"
    /\ ~panicked
    /\ PodcastStore \in handled.held
    /\ HeldEpisodeStores # {}

(***************************************************************************)
(* Sync batches (SpecBatch)                                                *)
(***************************************************************************)

\* C33: the results of one batch of syncs do not reach the next: whenever no
\* sync is pending after a handler has returned, sync_tracker is empty
C33_NoResultsBetweenBatches ==
    (sync_counter = 0 /\ ~panicked) => sync_tracker = << >>

(***************************************************************************)
(* The persistent tracker notification (Spec)                              *)
(***************************************************************************)

\* the messages of a handler that set or clear the persistent notification
TrackerNotifs(msgs) ==
    SelectSeq(msgs, LAMBDA m : m.type \in {"UiSpawnPersistentNotif",
                                           "UiClearPersistentNotif"})

\* C34: the persistent notification follows the bookkeeping: the last message
\* about it that a handler sends is the one update_tracker_notif gives for the
\* counter and the tracking set the handler leaves, and a handler that sends
\* none leaves both as it found them
C34_TrackerNotifCurrent ==
    [][~panicked' =>
         LET shown == TrackerNotifs(sent')
         IN  IF shown = << >>
             THEN /\ sync_counter' = sync_counter
                  /\ Cardinality(download_tracker') = Cardinality(download_tracker)
             ELSE shown[Len(shown)] =
                      update_tracker_notif(sync_counter', download_tracker')]_vars

(***************************************************************************)
(* Re-sync of stored episodes (SpecMerge)                                  *)
(***************************************************************************)

\* the rows stored before the run that equal the fetched episode in all five fields
Twins(f) == {row \in m_before : ~Differs(f, row)}

\* C35: a fetched episode that equals a stored episode in title, URL, description,
\* publish timestamp and duration is matched to a stored episode it equals, not to
\* another one that only scores 2; and a run whose fetched episodes all equal a
\* stored episode leaves every stored row as it was
C35_IdenticalMatchesItself ==
    m_runs >= 1 =>
        /\ \A k \in 1..Len(m_fetched) :
             Twins(Processed(k)) # {} =>
                 \E row \in Twins(Processed(k)) : m_result.existing[k] = Some(row.id)
        /\ (\A k \in 1..Len(m_fetched) : Twins(Processed(k)) # {}) =>
               db_episodes = m_before

(***************************************************************************)
(* What a sync leaves alone (SpecKeep)                                     *)
(***************************************************************************)

\* a step in which add_or_sync_data finished the sync of a stored podcast
SyncCompleted ==
    /\ handled'.type = "SyncData"
    /\ handled'.ok
    /\ feed_jobs' # feed_jobs
    /\ ~panicked'

\* C36: a sync of a stored podcast rewrites nothing but the five feed fields: every
\* stored row keeps its id, podcast, played flag and hidden flag, the file records
\* are untouched, and every episode the store held before it is the same episode
\* of the same podcast afterwards, as played and with the same local path
C36_SyncKeepsTheRest ==
    [][SyncCompleted =>
         /\ \A row \in db_episodes :
              \E kept \in db_episodes' :
                 /\ kept.id = row.id
                 /\ kept.podcast_id = row.podcast_id
                 /\ kept.played = row.played
                 /\ kept.hidden = row.hidden
         /\ db_files' = db_files
         /\ \A ep \in StoreEpisodes :
              \E kept \in StoreEpisodes' :
                 /\ kept.id = ep.id
                 /\ kept.pod_id = ep.pod_id
                 /\ kept.played = ep.played
                 /\ kept.path = ep.path]_vars

====
